---- MODULE Spec2Model ----
(***************************************************************************)
(* A model of the shp2imdf-converter backend: the validation engine        *)
(* (backend/src/validator.py), the autofix resolver                        *)
(* (backend/src/autofix.py), the hierarchy generator                       *)
(* (backend/src/generator.py) and the session endpoints that drive them    *)
(* (backend/routers/export_router.py, backend/routers/features_router.py). *)
(*                                                                         *)
(* Values.  A Python None or an absent dictionary key is the string None.  *)
(* Identifiers and geometries are tokens: each token stands for one        *)
(* concrete string (resp. one GeoJSON payload), and the operators below    *)
(* give, per token, what the library calls of the code return for it.      *)
(* A list-or-None property (building_ids) is a sequence, <<>> standing for *)
(* None and for the empty list, which the code treats alike; an            *)
(* int-or-None property (ordinal) is <<>> or <<n>>.                        *)
(***************************************************************************)
EXTENDS Integers, Sequences, FiniteSets, TLC

VARIABLES
    feature_collection,  \* pipeline: the collection handed to validate / apply_autofix
    validation,          \* pipeline: the ValidationResponse of feature_collection, or NoValidation
    autofix,             \* pipeline: the last apply_autofix call and its result, or NoAutofix
    rerun,               \* pipeline: the result of a second apply_autofix call on the same arguments
    revalidation,        \* pipeline: validation of autofix.updated, or NoValidation
    previous,            \* pipeline: the apply_autofix call of the round before, or NoAutofix
    pc,                  \* pipeline: position of the caller
    session,             \* endpoints: the stored SessionRecord
    response,            \* endpoints: the last endpoint's response
    gen_input,           \* generator: the session state handed to generate_feature_collection
    gen_output,          \* generator: the generated FeatureCollection's features, or NotGenerated
    call_args,           \* functions: the argument of a call of a pure function
    call_return,         \* functions: what the call returned, or NotReturned
    backend_name,        \* manager: "memory" or "filesystem", the SessionBackend in use
    stored,              \* manager: the session ids the backend holds a record for
    objects,             \* manager: the SessionRecord objects, by session id and by handler
    clock,               \* manager: datetime.now(UTC), in ticks
    handlers             \* manager: the request handlers in flight

vars == <<feature_collection, validation, autofix, rerun, revalidation, previous, pc,
          session, response, gen_input, gen_output, call_args, call_return,
          backend_name, stored, objects, clock, handlers>>

pipeline_vars == <<feature_collection, validation, autofix, rerun, revalidation, previous, pc>>
endpoint_vars == <<session, response>>
generator_vars == <<gen_input, gen_output>>
function_vars == <<call_args, call_return>>
manager_vars == <<backend_name, stored, objects, clock, handlers>>

None == "None"

(***************************************************************************)
(* Bounds of the model.                                                    *)
(***************************************************************************)
MaxUnits == 3
MaxLevels == 3

(***************************************************************************)
(* Sequence helpers.                                                       *)
(***************************************************************************)
Range(s) == {s[i] : i \in 1..Len(s)}

\* The concatenation F(1) \o ... \o F(n): a Python loop appending to a list.
FlatMap(n, F(_)) ==
    LET RECURSIVE Cat(_, _)
        Cat(lo, hi) ==
            IF lo > hi THEN <<>>
            ELSE IF lo = hi THEN F(lo)
            ELSE Cat(lo, (lo + hi) \div 2) \o Cat((lo + hi) \div 2 + 1, hi)
    IN Cat(1, n)

\* [x for x in s if Keep(x)]
Filter(s, Keep(_)) == FlatMap(Len(s), LAMBDA i : IF Keep(s[i]) THEN <<s[i]>> ELSE <<>>)

(***************************************************************************)
(* Identifier strings.  StringOrder lists every identifier token of the    *)
(* model in the order Python's string comparison gives them.               *)
(***************************************************************************)
\* The strings uuid.UUID() accepts.
UuidStrings == {"uuid-1", "uuid-2", "uuid-3", "uuid-4", "uuid-5", "uuid-6",
                "uuid-7", "uuid-8", "uuid-9", "uuid-a", "uuid-b", "uuid-l", "uuid-m",
                "uuid-n", "uuid-o", "uuid-p", "uuid-v",
                "uuid5(s1:building:building-1)", "uuid5(s1:footprint:building-1:-2)",
                "uuid5(s1:footprint:building-1:0)", "uuid5(s1:level:-2)",
                "uuid5(s1:level:0)", "uuid5(s1:venue)"}

StringOrder == <<"", "None", "unit-x", "uuid-1", "uuid-2", "uuid-3", "uuid-4", "uuid-5",
                 "uuid-6", "uuid-7", "uuid-8", "uuid-9", "uuid-a", "uuid-b", "uuid-l",
                 "uuid-m", "uuid-n", "uuid-o", "uuid-p", "uuid-v",
                 "uuid5(s1:building:building-1)", "uuid5(s1:footprint:building-1:-2)",
                 "uuid5(s1:footprint:building-1:0)", "uuid5(s1:level:-2)",
                 "uuid5(s1:level:0)", "uuid5(s1:venue)", "zone-9">>

Rank(s) == CHOOSE i \in 1..Len(StringOrder) : StringOrder[i] = s

StrLess(a, b) == Rank(a) < Rank(b)

StrMax(a, b) == IF StrLess(a, b) THEN b ELSE a

StrMin(a, b) == IF StrLess(a, b) THEN a ELSE b

\* sorted(S) for a set of strings
RECURSIVE SortedStrings(_)
SortedStrings(S) ==
    IF S = {} THEN <<>>
    ELSE LET least == CHOOSE a \in S : \A b \in S : ~StrLess(b, a)
         IN <<least>> \o SortedStrings(S \ {least})

_looks_like_uuid(value) == value \in UuidStrings

(***************************************************************************)
(* Geometry payloads.  Each token is one GeoJSON geometry; the operators   *)
(* give what shapely returns for it.                                       *)
(*   polyA        a valid polygon, coordinates of at most 7 decimals       *)
(*   polyA9       polyA with a ninth decimal added to its coordinates      *)
(*   polyA9t      polyA9 as mapping() returns it (coordinate tuples)       *)
(*   polyB        a valid polygon disjoint from polyA                      *)
(*   polyAB       unary_union of polyA and polyB, a valid MultiPolygon     *)
(*   bowtie       a self-intersecting polygon (parses, is not valid)       *)
(*   bowtieFixed  make_valid(bowtie), a valid MultiPolygon                 *)
(*   emptyPoly    {"type": "Polygon", "coordinates": []}                   *)
(*   garbage      {"type": "Polygon"} with coordinates shape() rejects     *)
(*   lineL        a valid LineString of 2 m on polyA's boundary            *)
(*   levelPoly    a valid polygon covering all the others                  *)
(* None is the JSON null.  All coordinates are within the lon/lat bounds   *)
(* and away from the origin.                                               *)
(***************************************************************************)
Geometries == {"polyA", "polyA9", "polyA9t", "polyB", "polyAB", "bowtie", "bowtieFixed",
               "emptyPoly", "garbage", "lineL", "levelPoly"}

\* payload.get("type")
GeometryType(g) ==
    CASE g = "lineL" -> "LineString"
      [] g \in {"bowtieFixed", "polyAB"} -> "MultiPolygon"
      [] OTHER -> "Polygon"

\* shape(payload) does not raise
Parses(g) == g \in Geometries \ {"garbage"}

is_empty(g) == g = "emptyPoly"

is_valid(g) == g # "bowtie"

wkb_hex(g) == IF g = "polyA9t" THEN "polyA9" ELSE g

\* validator._max_decimals(payload) > 7: _flatten_coords reads lists, not tuples
ExcessivePrecision(g) == g = "polyA9"

\* mapping(make_valid(shape(geometry))), for a geometry that parses
make_valid(g) ==
    CASE g = "bowtie" -> "bowtieFixed"
      [] g = "polyA9" -> "polyA9t"
      [] OTHER -> g

\* unary_union of two valid geometries of the model; lineL lies on polyA's boundary
unary_union(left, right) ==
    IF wkb_hex(left) = wkb_hex(right) THEN left
    ELSE IF {left, right} \subseteq {"polyA", "polyB", "polyAB"} THEN "polyAB"
    ELSE IF left = "lineL" THEN right
    ELSE IF right = "lineL" THEN left
    ELSE "levelPoly"

\* autofix._round_value(geometry, 7)
_round_value(g) == IF g \in {"polyA9", "polyA9t"} THEN "polyA" ELSE g

\* geom.centroid lies in (contains or touches) container
CentroidWithin(g, container) ==
    \/ container = "levelPoly"
    \/ g # "polyAB" /\ wkb_hex(g) = wkb_hex(container)
    \/ {g, container} \subseteq {"polyA", "polyA9", "polyA9t"}

\* left.intersection(right) is not empty and has area > 0
OverlapArea(left, right) ==
    /\ GeometryType(left) # "LineString" /\ GeometryType(right) # "LineString"
    /\ \/ "levelPoly" \in {left, right}
       \/ wkb_hex(left) = wkb_hex(right)
       \/ {left, right} \subseteq {"polyA", "polyA9", "polyA9t"}
       \/ {left, right} \subseteq {"bowtie", "bowtieFixed"}
       \/ "polyAB" \in {left, right}
             /\ {left, right} \subseteq {"polyA", "polyA9", "polyA9t", "polyB", "polyAB"}

\* Display points: ptA lies inside polyA (and polyA9, polyAB, levelPoly), ptB inside
\* polyB (and polyAB, levelPoly), ptL on lineL, ptFar in no geometry.
DisplayPoints == {"ptA", "ptB", "ptL", "ptFar"}

\* validator._point_in_geometry(display_point, geom), geom not None
_point_in_geometry(display_point, g) ==
    /\ ~is_empty(g)
    /\ \/ display_point = "ptA" /\ g \in {"polyA", "polyA9", "polyA9t", "polyAB", "levelPoly"}
       \/ display_point = "ptB" /\ g \in {"polyB", "polyAB", "levelPoly"}
       \/ display_point = "ptL" /\ g \in {"lineL", "polyA", "polyA9", "polyA9t", "polyAB",
                                            "levelPoly"}

(***************************************************************************)
(* Features.  A feature is a record [id, feature_type, geometry,           *)
(* properties]; properties holds the keys the validator reads.  Label      *)
(* values are "labels" (a well-formed LABELS object) or "text" (a bare     *)
(* string); booleans are "True" / "False".                                 *)
(***************************************************************************)
NoProperties ==
    [level_id |-> None, category |-> None, building_ids |-> <<>>, address_id |-> None,
     ordinal |-> <<>>, name |-> None, short_name |-> None, alt_name |-> None,
     outdoor |-> None, display_point |-> None, door |-> None,
     status |-> None, issues |-> <<>>]

Feature(id, ftype, geometry, properties) ==
    [id |-> id, feature_type |-> ftype, geometry |-> geometry, properties |-> properties]

POLYGON_TYPES == {"venue", "footprint", "level", "unit", "fixture"}
LINE_TYPES == {"opening", "detail"}
NULL_GEOM_TYPES == {"address", "building"}
LEVEL_LINKED_TYPES == {"unit", "opening", "fixture", "detail"}

\* validator._feature_id: the id if it is a non-empty string
_feature_id(row) == IF row.id = "" THEN None ELSE row.id

_feature_type(row) == row.feature_type

_props(row) == row.properties

_geom_payload(row) == row.geometry

\* validator._geom: the parsed geometry, None for a null or unparseable payload
_geom(row) == IF row.geometry # None /\ Parses(row.geometry) THEN row.geometry ELSE None

_labels_ok(value) == value = "labels"

\* value.strip().lower() of a category: "Unspecified " stands for a spelling of
\* "unspecified" with capitals and surrounding blanks, " " for a blank string
StripLower(value) ==
    CASE value = "Unspecified " -> "unspecified"
      [] value = " " -> ""
      [] OTHER -> value


(***************************************************************************)
(* validator.validate_feature_collection.  Each pass of the function over  *)
(* the rows is one operator returning the issues the pass adds, in order.  *)
(***************************************************************************)
\* A ValidationIssue.  Of the message only its variable part is kept: the ordinals a
\* level_ordinal_gap warning names (<<>> for every other check).
Issue(severity, check, feature_id, related_feature_id, auto_fixable) ==
    [severity |-> severity, check |-> check, feature_id |-> feature_id,
     related_feature_id |-> related_feature_id, auto_fixable |-> auto_fixable,
     message |-> <<>>]

\* by_type.get(ftype, 0)
by_type(rows, ftype) == Cardinality({i \in 1..Len(rows) : _feature_type(rows[i]) = ftype})

\* id_counts.get(fid, 0)
id_counts(rows, fid) == Cardinality({i \in 1..Len(rows) : _feature_id(rows[i]) = fid})

\* The keys of by_id: the ids of the rows that have one.
IdKeys(rows) == {_feature_id(rows[i]) : i \in 1..Len(rows)} \ {None}

\* by_id[fid]: a dict comprehension keeps the last row of each id.
by_id(rows, fid) ==
    rows[CHOOSE i \in 1..Len(rows) :
            /\ _feature_id(rows[i]) = fid
            /\ \A j \in (i + 1)..Len(rows) : _feature_id(rows[j]) # fid]

\* The keys of by_id in insertion order: each id at its first row.
IdKeysInOrder(rows) ==
    FlatMap(Len(rows), LAMBDA i :
        IF /\ _feature_id(rows[i]) # None
           /\ \A j \in 1..(i - 1) : _feature_id(rows[j]) # _feature_id(rows[i])
        THEN <<_feature_id(rows[i])>> ELSE <<>>)

IdsOfType(rows, ftype) == {fid \in IdKeys(rows) : _feature_type(by_id(rows, fid)) = ftype}

level_ids(rows) == IdsOfType(rows, "level")
building_ids(rows) == IdsOfType(rows, "building")
address_ids(rows) == IdsOfType(rows, "address")

\* the required-type check looking for the venue only
RequiredTypeIssues_VenueOnly(rows) ==
    IF by_type(rows, "venue") = 0
    THEN <<Issue("error", "missing_venue", None, None, FALSE)>> ELSE <<>>

\* lines 152-154
RequiredTypeIssues(rows) ==
    (IF by_type(rows, "venue") = 0
     THEN <<Issue("error", "missing_venue", None, None, FALSE)>> ELSE <<>>)
    \o (IF by_type(rows, "building") = 0
        THEN <<Issue("error", "missing_building", None, None, FALSE)>> ELSE <<>>)

\* lines 156-178, one row
IdentifierIssues(rows, row) ==
    LET fid == _feature_id(row)
    IN IF fid = None THEN <<Issue("error", "missing_id", None, None, FALSE)>>
       ELSE (IF ~_looks_like_uuid(fid)
             THEN <<Issue("error", "id_not_uuid", fid, None, TRUE)>> ELSE <<>>)
            \o (IF id_counts(rows, fid) > 1
                THEN <<Issue("error", "duplicate_uuids", fid, None, TRUE)>> ELSE <<>>)

MustBeNull(ftype) ==
    IF ftype = "address" THEN "address_must_be_null" ELSE "building_must_be_null"

MustBePolygon(ftype) ==
    CASE ftype = "venue" -> "venue_must_be_polygon"
      [] ftype = "footprint" -> "footprint_must_be_polygon"
      [] ftype = "level" -> "level_must_be_polygon"
      [] ftype = "unit" -> "unit_must_be_polygon"
      [] OTHER -> "fixture_must_be_polygon"

MustBeLinestring(ftype) ==
    IF ftype = "opening" THEN "opening_must_be_linestring" ELSE "detail_must_be_linestring"

\* lines 185-243, one row: the issues of the geometry pass
GeometryIssues(row) ==
    LET fid == _feature_id(row)
        ftype == _feature_type(row)
        payload == _geom_payload(row)
        geom == _geom(row)
    IN IF ftype \in NULL_GEOM_TYPES
       THEN (IF payload # None
             THEN <<Issue("error", MustBeNull(ftype), fid, None, FALSE)>> ELSE <<>>)
       ELSE IF payload = None
       THEN <<Issue("error", "empty_geometry", fid, None, FALSE)>>
       ELSE (IF ftype \in POLYGON_TYPES /\ GeometryType(payload) \notin {"Polygon", "MultiPolygon"}
             THEN <<Issue("error", MustBePolygon(ftype), fid, None, FALSE)>> ELSE <<>>)
            \o (IF ftype \in LINE_TYPES /\ GeometryType(payload) # "LineString"
                THEN <<Issue("error", MustBeLinestring(ftype), fid, None, FALSE)>> ELSE <<>>)
            \o (IF geom = None
                THEN <<Issue("error", "invalid_geometry", fid, None, TRUE)>>
                ELSE IF is_empty(geom)
                THEN <<Issue("error", "empty_geometry", fid, None, FALSE)>>
                ELSE (IF ~is_valid(geom)
                      THEN <<Issue("error", "invalid_geometry", fid, None, TRUE)>> ELSE <<>>)
                     \o (IF ExcessivePrecision(payload)
                         THEN <<Issue("warning", "excessive_precision", fid, None, TRUE)>>
                         ELSE <<>>))

\* The row reaches line 243: geoms_by_id[fid] = geom
RegistersGeometry(row) ==
    /\ _feature_type(row) \notin NULL_GEOM_TYPES
    /\ _geom(row) # None
    /\ ~is_empty(_geom(row))
    /\ _feature_id(row) # None

\* fid in geoms_by_id
HasGeometry(rows, fid) ==
    \E i \in 1..Len(rows) : _feature_id(rows[i]) = fid /\ RegistersGeometry(rows[i])

\* geoms_by_id.get(fid): the geometry of the last row of that id that registered one
geoms_by_id(rows, fid) ==
    IF fid = None \/ ~HasGeometry(rows, fid) THEN None
    ELSE _geom(rows[CHOOSE i \in 1..Len(rows) :
                      /\ _feature_id(rows[i]) = fid /\ RegistersGeometry(rows[i])
                      /\ \A j \in (i + 1)..Len(rows) :
                            ~(_feature_id(rows[j]) = fid /\ RegistersGeometry(rows[j]))])

\* level_geoms.get(level_id)
level_geoms(rows, level_id) ==
    IF level_id \in level_ids(rows) THEN geoms_by_id(rows, level_id) ELSE None


MissingLevelId(ftype) ==
    CASE ftype = "unit" -> "unit_missing_level_id_error"
      [] ftype = "opening" -> "opening_missing_level_id_error"
      [] ftype = "fixture" -> "fixture_missing_level_id_error"
      [] OTHER -> "detail_missing_level_id_error"

\* geom.area < 1e-10: of the model's geometries only the line has no area
IsSliver(g) == GeometryType(g) = "LineString"

\* lines 254-256
LabelIssues(row) ==
    LET fid == _feature_id(row)
        props == _props(row)
        One(value) == IF value # None /\ ~_labels_ok(value)
                      THEN <<Issue("error", "labels_format_valid", fid, None, FALSE)>>
                      ELSE <<>>
    IN One(props.name) \o One(props.short_name) \o One(props.alt_name)

\* lines 286-306: building_ids of a level or footprint
BuildingIdsIssues(rows, row, missing_check) ==
    LET fid == _feature_id(row)
        b_ids == _props(row).building_ids
    IN IF b_ids = <<>>
       THEN <<Issue("error", missing_check, fid, None, FALSE)>>
       ELSE IF \E k \in 1..Len(b_ids) : b_ids[k] \notin building_ids(rows)
       THEN <<Issue("error", "orphaned_reference_error", fid, None, FALSE)>>
       ELSE <<>>

\* lines 248-320, one row: the issues of the property pass
PropertyIssues(rows, row) ==
    LET fid == _feature_id(row)
        ftype == _feature_type(row)
        props == _props(row)
        geom == geoms_by_id(rows, fid)
        Err(cond, check) == IF cond THEN <<Issue("error", check, fid, None, FALSE)>> ELSE <<>>
        Warn(cond, check) == IF cond THEN <<Issue("warning", check, fid, None, FALSE)>> ELSE <<>>
    IN LabelIssues(row)
       \o Err(/\ geom # None /\ props.display_point # None
              /\ ~_point_in_geometry(props.display_point, geom),
              "display_point_within_geometry")
       \o (IF ftype \in LEVEL_LINKED_TYPES
           THEN IF props.level_id = None \/ props.level_id = ""
                THEN Err(TRUE, MissingLevelId(ftype))
                ELSE Err(props.level_id \notin level_ids(rows), "orphaned_reference_error")
           ELSE <<>>)
       \o (IF ftype = "unit"
           THEN (IF props.category = None \/ StripLower(props.category) = ""
                 THEN Err(TRUE, "unit_missing_category_error")
                 ELSE Warn(StripLower(props.category) = "unspecified", "unspecified_category"))
                \o Warn(geom # None /\ IsSliver(geom), "sliver_polygon_warning")
           ELSE <<>>)
       \o Err(ftype = "opening" /\ props.category \in {None, ""}, "opening_missing_category_error")
       \o Err(ftype = "fixture" /\ props.category \in {None, ""}, "fixture_missing_category_error")
       \o (IF ftype = "level"
           THEN Err(props.ordinal = <<>>, "level_missing_ordinal_error")
                \o Err(~_labels_ok(props.short_name), "level_missing_short_name_error")
                \o Err(props.outdoor \notin {"True", "False"}, "level_missing_outdoor_error")
                \o BuildingIdsIssues(rows, row, "level_missing_building_ids_error")
           ELSE <<>>)
       \o (IF ftype = "footprint"
           THEN Err(props.category \in {None, ""}, "footprint_missing_category_error")
                \o BuildingIdsIssues(rows, row, "footprint_missing_building_ids_error")
           ELSE <<>>)
       \o (IF ftype = "venue"
           THEN (IF props.address_id = None \/ props.address_id = ""
                 THEN Err(TRUE, "venue_missing_address_error")
                 ELSE Err(props.address_id \notin address_ids(rows), "venue_missing_address_id"))
                \o Err(props.display_point = None, "venue_missing_display_point_error")
           ELSE <<>>)
       \o Err(/\ ftype = "building" /\ props.address_id # None
              /\ props.address_id \notin address_ids(rows),
              "building_address_id_valid")

\* line 274: the row is appended to units_by_level[props["level_id"]]
InUnitsByLevel(rows, row) ==
    /\ _feature_type(row) = "unit"
    /\ _feature_id(row) # None
    /\ geoms_by_id(rows, _feature_id(row)) # None
    /\ _props(row).level_id # None

\* units_by_level.get(level_id, []): the (fid, geom) pairs, in row order
units_by_level(rows, level_id) ==
    FlatMap(Len(rows), LAMBDA i :
        IF InUnitsByLevel(rows, rows[i]) /\ _props(rows[i]).level_id = level_id
        THEN <<[fid |-> _feature_id(rows[i]), geom |-> geoms_by_id(rows, _feature_id(rows[i]))]>>
        ELSE <<>>)

\* The keys of units_by_level in insertion order
UnitLevelKeys(rows) ==
    FlatMap(Len(rows), LAMBDA i :
        IF /\ InUnitsByLevel(rows, rows[i])
           /\ \A j \in 1..(i - 1) :
                 ~(InUnitsByLevel(rows, rows[j])
                   /\ _props(rows[j]).level_id = _props(rows[i]).level_id)
        THEN <<_props(rows[i]).level_id>> ELSE <<>>)

\* lines 322-332, one level: centroid warnings, then the overlaps of combinations(pairs, 2)
UnitLevelIssues(rows, level_id) ==
    LET pairs == units_by_level(rows, level_id)
        level_geom == level_geoms(rows, level_id)
    IN FlatMap(Len(pairs), LAMBDA i :
           IF level_geom # None /\ ~CentroidWithin(pairs[i].geom, level_geom)
           THEN <<Issue("warning", "unit_outside_level_warning", pairs[i].fid, None, FALSE)>>
           ELSE <<>>)
       \o FlatMap(Len(pairs), LAMBDA i :
              FlatMap(Len(pairs), LAMBDA j :
                  IF i < j /\ OverlapArea(pairs[i].geom, pairs[j].geom)
                  THEN <<Issue("warning", "overlapping_units", pairs[i].fid, pairs[j].fid, FALSE),
                         Issue("warning", "overlapping_units", pairs[j].fid, pairs[i].fid, FALSE)>>
                  ELSE <<>>))

SpatialUnitIssues(rows) ==
    LET keys == UnitLevelKeys(rows)
    IN FlatMap(Len(keys), LAMBDA k : UnitLevelIssues(rows, keys[k]))


\* line 338-342: the row takes part in the duplicate-geometry pass
InGeometryHashes(rows, row) ==
    /\ _feature_id(row) # None
    /\ HasGeometry(rows, _feature_id(row))
    /\ _feature_type(row) \in {"unit", "opening", "fixture", "detail"}

\* line 344: (ftype, level_id, wkb_hex)
GeometryKey(rows, row) ==
    <<_feature_type(row), _props(row).level_id, wkb_hex(geoms_by_id(rows, _feature_id(row)))>>

\* the duplicate check flagging every row of a key that another row has, naming the
\* first such other row
DuplicateGeometryIssues_BothWays(rows) ==
    FlatMap(Len(rows), LAMBDA i :
        LET Others == {j \in 1..Len(rows) :
                          /\ j # i
                          /\ InGeometryHashes(rows, rows[j])
                          /\ GeometryKey(rows, rows[j]) = GeometryKey(rows, rows[i])}
        IN IF InGeometryHashes(rows, rows[i]) /\ Others # {}
           THEN LET first == CHOOSE j \in Others : \A k \in Others : j <= k
                IN <<Issue("warning", "duplicate_geometry_warning", _feature_id(rows[i]),
                           _feature_id(rows[first]), FALSE)>>
           ELSE <<>>)

\* lines 334-349: geometry_hashes keeps the first row of each key; every later row of
\* the key is flagged, naming that first row.
DuplicateGeometryIssues(rows) ==
    FlatMap(Len(rows), LAMBDA i :
        LET Earlier == {j \in 1..(i - 1) :
                           /\ InGeometryHashes(rows, rows[j])
                           /\ GeometryKey(rows, rows[j]) = GeometryKey(rows, rows[i])}
        IN IF InGeometryHashes(rows, rows[i]) /\ Earlier # {}
           THEN LET first == CHOOSE j \in Earlier : \A k \in Earlier : j <= k
                IN <<Issue("warning", "duplicate_geometry_warning", _feature_id(rows[i]),
                           _feature_id(rows[first]), FALSE)>>
           ELSE <<>>)

\* lines 351-365: footprint in venue, level in the union of the footprints
FootprintLevelIssues(rows) ==
    LET keys == IdKeysInOrder(rows)
        WithGeom(ftype) == Filter(keys, LAMBDA fid :
                               /\ _feature_type(by_id(rows, fid)) = ftype
                               /\ HasGeometry(rows, fid))
        venues == WithGeom("venue")
        footprints == WithGeom("footprint")
        levels == WithGeom("level")
    IN (IF venues # <<>>
        THEN FlatMap(Len(footprints), LAMBDA k :
                 IF ~CentroidWithin(geoms_by_id(rows, footprints[k]),
                                    geoms_by_id(rows, venues[1]))
                 THEN <<Issue("warning", "footprint_outside_venue_warning",
                              footprints[k], None, FALSE)>>
                 ELSE <<>>)
        ELSE <<>>)
       \o (IF footprints # <<>>
           THEN FlatMap(Len(levels), LAMBDA k :
                    IF ~\E f \in 1..Len(footprints) :
                           CentroidWithin(geoms_by_id(rows, levels[k]),
                                          geoms_by_id(rows, footprints[f]))
                    THEN <<Issue("warning", "level_outside_footprint_warning",
                                 levels[k], None, FALSE)>>
                    ELSE <<>>)
           ELSE <<>>)

\* geom.intersects(other): a line of the model lies on polyA's boundary
Intersects(g, other) ==
    \/ OverlapArea(g, other)
    \/ "levelPoly" \in {g, other}
    \/ /\ "lineL" \in {g, other}
       /\ {g, other} \ {"lineL"} \subseteq {"polyA", "polyA9", "polyA9t", "polyAB"}

\* lines 367-391, one row.  The model's line is 2 m long: neither too short nor too long.
OpeningDetailIssues(rows, row) ==
    LET fid == _feature_id(row)
        ftype == _feature_type(row)
        props == _props(row)
        geom == geoms_by_id(rows, fid)
        units == units_by_level(rows, props.level_id)
        Warn(cond, check) == IF cond THEN <<Issue("warning", check, fid, None, FALSE)>> ELSE <<>>
    IN IF fid = None \/ ~HasGeometry(rows, fid) THEN <<>>
       ELSE (IF ftype = "opening"
             THEN Warn(/\ GeometryType(geom) = "LineString"
                       /\ props.level_id # None /\ units # <<>>
                       /\ ~\E k \in 1..Len(units) : Intersects(geom, units[k].geom),
                       "opening_not_touching_boundary")
                  \o Warn(/\ props.category \in {"pedestrian", "pedestrian.principal",
                                                 "pedestrian.transit"}
                          /\ props.door = None,
                          "opening_missing_door_warning")
             ELSE <<>>)
            \o Warn(/\ ftype = "detail" /\ props.level_id # None
                    /\ level_geoms(rows, props.level_id) # None
                    /\ ~Intersects(level_geoms(rows, props.level_id), geom),
                    "detail_outside_level")

\* line 394: the integer ordinals of the level rows
LevelOrdinals(rows) ==
    {_props(rows[i]).ordinal[1] : i \in {k \in 1..Len(rows) :
        _feature_type(rows[k]) = "level" /\ _props(rows[k]).ordinal # <<>>}}

\* lines 395-399: the integers strictly between two consecutive ordinals, ascending
RECURSIVE SortedInts(_)
SortedInts(S) ==
    IF S = {} THEN <<>>
    ELSE LET least == CHOOSE a \in S : \A b \in S : a <= b
         IN <<least>> \o SortedInts(S \ {least})

\* a scan that names only the first absent integer after each ordinal
MissingOrdinals_FirstOfGap(ordinals) ==
    LET sorted == SortedInts(ordinals)
    IN FlatMap(Len(sorted) - 1, LAMBDA k :
           IF sorted[k + 1] - sorted[k] > 1 THEN <<sorted[k] + 1>> ELSE <<>>)

MissingOrdinals(ordinals) ==
    LET sorted == SortedInts(ordinals)
    IN FlatMap(Len(sorted) - 1, LAMBDA k :
           IF sorted[k + 1] - sorted[k] > 1
           THEN [n \in 1..(sorted[k + 1] - sorted[k] - 1) |-> sorted[k] + n]
           ELSE <<>>)


\* lines 393-404
CrossLevelIssues(rows) ==
    LET ordinals == LevelOrdinals(rows)
        missing == IF Cardinality(ordinals) >= 2 THEN MissingOrdinals(ordinals) ELSE <<>>
        levels == SortedStrings(level_ids(rows))
    IN (IF missing # <<>>
        THEN <<[Issue("warning", "level_ordinal_gap", None, None, FALSE)
                   EXCEPT !.message = missing]>>
        ELSE <<>>)
       \o FlatMap(Len(levels), LAMBDA k :
              IF units_by_level(rows, levels[k]) = <<>>
              THEN <<Issue("warning", "level_no_units", levels[k], None, FALSE)>>
              ELSE <<>>)

\* Every add_issue call of validate_feature_collection, in call order
AllIssues(rows) ==
    RequiredTypeIssues(rows)
    \o FlatMap(Len(rows), LAMBDA i : IdentifierIssues(rows, rows[i]))
    \o FlatMap(Len(rows), LAMBDA i : GeometryIssues(rows[i]))
    \o FlatMap(Len(rows), LAMBDA i : PropertyIssues(rows, rows[i]))
    \o SpatialUnitIssues(rows)
    \o DuplicateGeometryIssues(rows)
    \o FootprintLevelIssues(rows)
    \o FlatMap(Len(rows), LAMBDA i : OpeningDetailIssues(rows, rows[i]))
    \o CrossLevelIssues(rows)

PassableChecks == {"unique_uuids", "valid_geometry", "venue_exists", "building_exists",
                   "labels_format_valid", "display_points_valid"}

OpeningChecks == {"opening_must_be_linestring", "opening_missing_level_id_error",
                  "opening_missing_category_error", "opening_not_touching_boundary",
                  "opening_too_short", "opening_too_long", "opening_missing_door_warning"}

CountIssues(issues, Keep(_)) == Len(Filter(issues, Keep))

\* lines 406-420: the ValidationResponse of the issues.  passed, a sorted list of
\* distinct names, is the set of its names.
ValidationResponse(total_features, issues, errors, warnings, failed_checks, passed) ==
    [errors |-> errors,
     warnings |-> warnings,
     passed |-> passed,
     summary |->
         [total_features |-> total_features,
          error_count |-> Len(errors),
          warning_count |-> Len(warnings),
          auto_fixable_count |-> CountIssues(issues, LAMBDA issue : issue.auto_fixable),
          checks_passed |-> Cardinality(passed),
          checks_failed |-> Cardinality(failed_checks),
          unspecified_count |->
              CountIssues(warnings, LAMBDA issue : issue.check = "unspecified_category"),
          overlap_count |->
              CountIssues(warnings, LAMBDA issue : issue.check = "overlapping_units"),
          opening_issues_count |->
              CountIssues(warnings, LAMBDA issue : issue.check \in OpeningChecks)]]

ChecksOf(issues) == {issues[k].check : k \in 1..Len(issues)}

\* lines 43-46 and 406-407: the errors, the warnings, failed_checks and passed
SplitIssues(total_features, issues) ==
    ValidationResponse(total_features, issues,
                       Filter(issues, LAMBDA issue : issue.severity = "error"),
                       Filter(issues, LAMBDA issue : issue.severity # "error"),
                       ChecksOf(issues), PassableChecks \ ChecksOf(issues))

\* validator.validate_feature_collection
validate_feature_collection(rows) == SplitIssues(Len(rows), AllIssues(rows))


(***************************************************************************)
(* autofix.apply_autofix.  uuid4() is random: a call of apply_autofix is   *)
(* given the stream of values its uuid4() calls return.  A stream holds    *)
(* identifiers that occur in no input collection (a random UUID collides   *)
(* with an existing one with negligible probability) and may repeat a      *)
(* value, which the loop of lines 71-72 then skips.                        *)
(***************************************************************************)
\* uuid4() returning values that the collection may hold already
Uuid4Streams_Colliding ==
    {<<"uuid-1", "uuid-2", "uuid-3", "uuid-4", "uuid-5", "uuid-6", "uuid-7", "uuid-8",
       "uuid-9">>,
     <<"uuid-4", "uuid-5", "uuid-6", "uuid-7", "uuid-8", "uuid-9">>}

Uuid4Streams ==
    {<<"uuid-4", "uuid-5", "uuid-6", "uuid-7", "uuid-8", "uuid-9">>,
     <<"uuid-9", "uuid-9", "uuid-8", "uuid-8", "uuid-7", "uuid-7",
       "uuid-6", "uuid-6", "uuid-5", "uuid-5", "uuid-4", "uuid-4">>}

AutofixApplied(feature_id, check, action) ==
    [feature_id |-> feature_id, check |-> check, action |-> action]

AutofixPrompt(feature_id, related_feature_id, check, action) ==
    [feature_id |-> feature_id, related_feature_id |-> related_feature_id,
     check |-> check, action |-> action]

\* lines 70-72: new_id = str(uuid4()); while new_id in seen_ids: new_id = str(uuid4()).
\* The position in the stream of the value the loop ends with.
Uuid4Position(stream, cursor, seen_ids) ==
    CHOOSE k \in cursor..Len(stream) :
        /\ stream[k] \notin seen_ids
        /\ \A j \in cursor..(k - 1) : stream[j] \in seen_ids

\* the row keeps every well-formed id, seen before or not
KeepsId_WellFormed(feature_id, seen_ids) == _looks_like_uuid(feature_id)

\* line 67: the row keeps its id
KeepsId(feature_id, seen_ids) == _looks_like_uuid(feature_id) /\ feature_id \notin seen_ids

\* lines 59-82: the loop over the rows, as the state after row n:
\* the rows, seen_ids, fixes_applied and the position in the uuid4 stream.
RegenerateIds(rows, stream) ==
    LET step[n \in 0..Len(rows)] ==
            IF n = 0
            THEN [rows |-> rows, seen_ids |-> {}, fixes_applied |-> <<>>, cursor |-> 1]
            ELSE LET before == step[n - 1]
                     feature_id == rows[n].id
                 IN IF feature_id = None THEN before
                    ELSE IF KeepsId(feature_id, before.seen_ids)
                    THEN [before EXCEPT !.seen_ids = @ \cup {feature_id}]
                    ELSE LET at == Uuid4Position(stream, before.cursor, before.seen_ids)
                             new_id == stream[at]
                         IN [rows |-> [before.rows EXCEPT ![n].id = new_id],
                             seen_ids |-> before.seen_ids \cup {new_id},
                             fixes_applied |-> Append(before.fixes_applied,
                                 AutofixApplied(new_id, "duplicate_uuids", "regenerate_uuid")),
                             cursor |-> at + 1]
    IN step[Len(rows)]

\* lines 85-89 and 95: by_id.get(issue.feature_id) as the index of the row, 0 for no row.
\* The dict comprehension keeps the last row of each string id.
RowIndexById(rows, feature_id) ==
    LET Matching == {i \in 1..Len(rows) : rows[i].id # None /\ rows[i].id = feature_id}
    IN IF Matching = {} THEN 0 ELSE CHOOSE i \in Matching : \A j \in Matching : j <= i

\* lines 92-125: the safe fixes of one issue, on rows and fixes_applied
ApplySafeFix(state, issue) ==
    LET index == IF issue.feature_id \in {None, ""} THEN 0
                 ELSE RowIndexById(state.rows, issue.feature_id)
        geometry == state.rows[index].geometry
    IN IF index = 0 THEN state
       ELSE IF issue.check = "invalid_geometry" /\ geometry # None
       THEN IF Parses(geometry)
            THEN [rows |-> [state.rows EXCEPT ![index].geometry = make_valid(geometry)],
                  fixes_applied |-> Append(state.fixes_applied,
                      AutofixApplied(issue.feature_id, issue.check, "make_valid"))]
            ELSE state
       ELSE IF issue.check = "excessive_precision" /\ geometry # None
       THEN [rows |-> [state.rows EXCEPT ![index].geometry = _round_value(geometry)],
             fixes_applied |-> Append(state.fixes_applied,
                 AutofixApplied(issue.feature_id, issue.check, "round_coordinates"))]
       ELSE state

\* lines 91-125: the loop over the issues; only the issues of the two checks of lines
\* 100 and 115 have an effect
ApplySafeFixes(rows, fixes_applied, issues) ==
    LET fixable == Filter(issues, LAMBDA issue :
                       issue.check \in {"invalid_geometry", "excessive_precision"})
        step[n \in 0..Len(fixable)] ==
            IF n = 0 THEN [rows |-> rows, fixes_applied |-> fixes_applied]
            ELSE ApplySafeFix(step[n - 1], fixable[n])
    IN step[Len(fixable)]

\* lines 128-135: duplicate_pairs, each pair as tuple(sorted([feature_id, related_feature_id]))
duplicate_pairs(issues) ==
    {<<StrMin(issues[k].feature_id, issues[k].related_feature_id),
       StrMax(issues[k].feature_id, issues[k].related_feature_id)>> :
        k \in {n \in 1..Len(issues) :
                 /\ issues[n].check = "duplicate_geometry_warning"
                 /\ issues[n].feature_id \notin {None, ""}
                 /\ issues[n].related_feature_id \notin {None, ""}}}

\* lines 136-137
empty_ids(issues) ==
    {issues[k].feature_id :
        k \in {n \in 1..Len(issues) :
                 /\ issues[n].check = "empty_geometry"
                 /\ issues[n].feature_id \notin {None, ""}}}

\* sorted(pairs) for a set of pairs of strings
RECURSIVE SortedPairs(_)
SortedPairs(S) ==
    IF S = {} THEN <<>>
    ELSE LET PairLess(p, q) == StrLess(p[1], q[1]) \/ (p[1] = q[1] /\ StrLess(p[2], q[2]))
             least == CHOOSE p \in S : \A q \in S : ~PairLess(q, p)
         IN <<least>> \o SortedPairs(S \ {least})

\* lines 139-157
Prompts(issues) ==
    LET pairs == SortedPairs(duplicate_pairs(issues))
        empties == SortedStrings(empty_ids(issues))
    IN [k \in 1..Len(pairs) |->
            AutofixPrompt(pairs[k][1], pairs[k][2], "duplicate_geometry_warning",
                          "delete_duplicate")]
       \o [k \in 1..Len(empties) |->
               AutofixPrompt(empties[k], None, "empty_geometry", "delete_empty")]

\* lines 160-164: of each duplicate pair the lexicographically larger id, and the empty ids
to_delete(issues) ==
    {StrMax(pair[1], pair[2]) : pair \in duplicate_pairs(issues)} \cup empty_ids(issues)

\* lines 165-182
DeletePrompted(state, doomed) ==
    IF doomed = {} THEN state
    ELSE [rows |-> Filter(state.rows, LAMBDA row : row.id = None \/ row.id \notin doomed),
          fixes_applied |-> state.fixes_applied
              \o FlatMap(Len(state.rows), LAMBDA i :
                     IF state.rows[i].id # None /\ state.rows[i].id \in doomed
                     THEN <<AutofixApplied(state.rows[i].id, "prompted_delete", "delete_feature")>>
                     ELSE <<>>)]

\* apply_autofix deleting the prompted features whether apply_prompted is set or not
apply_autofix_AlwaysDeletes(rows, validation_response, apply_prompted, stream) ==
    LET issues == validation_response.errors \o validation_response.warnings
        ids == RegenerateIds(rows, stream)
        safe == ApplySafeFixes(ids.rows, ids.fixes_applied, issues)
        final == DeletePrompted(safe, to_delete(issues))
    IN [updated |-> final.rows,
        fixes_applied |-> final.fixes_applied,
        prompts |-> Prompts(issues)]

\* autofix.apply_autofix(feature_collection, validation, apply_prompted), with the
\* values its uuid4() calls return
apply_autofix(rows, validation_response, apply_prompted, stream) ==
    LET issues == validation_response.errors \o validation_response.warnings
        ids == RegenerateIds(rows, stream)
        safe == ApplySafeFixes(ids.rows, ids.fixes_applied, issues)
        final == IF apply_prompted THEN DeletePrompted(safe, to_delete(issues)) ELSE safe
    IN [updated |-> final.rows,
        fixes_applied |-> final.fixes_applied,
        prompts |-> Prompts(issues)]


(***************************************************************************)
(* Input collections of the pipeline.                                      *)
(***************************************************************************)
AddressFeature == Feature("uuid-a", "address", None, NoProperties)

VenueFeature ==
    Feature("uuid-v", "venue", "levelPoly",
            [NoProperties EXCEPT !.category = "transitstation", !.name = "labels",
                                 !.address_id = "uuid-a", !.display_point = "ptA"])

BuildingFeature ==
    Feature("uuid-b", "building", None, [NoProperties EXCEPT !.category = "unspecified"])

LevelFeature ==
    Feature("uuid-l", "level", "levelPoly",
            [NoProperties EXCEPT !.category = "unspecified", !.ordinal = <<0>>,
                                 !.name = "labels", !.short_name = "labels",
                                 !.outdoor = "False", !.building_ids = <<"uuid-b">>,
                                 !.display_point = "ptA"])

UnitFeature(id, geometry) ==
    Feature(id, "unit", geometry,
            [NoProperties EXCEPT !.category = "room", !.level_id = "uuid-l"])

\* All sequences over S of length at most n
SeqsUpTo(S, n) == UNION {[1..k -> S] : k \in 0..n}

\* Three well-formed ids and a malformed one
UnitIds == {"uuid-1", "uuid-2", "uuid-3", "zone-9"}

\* A generated venue with up to MaxUnits units whose ids may be malformed or repeated
\* and whose geometries may be invalid.
UnitCollections ==
    {<<AddressFeature, VenueFeature, BuildingFeature, LevelFeature>> \o units :
        units \in SeqsUpTo({UnitFeature(id, g) : id \in UnitIds, g \in {"polyA", "bowtie"}},
                           MaxUnits)}

\* A generated venue with two units of over-precise, missing, empty or unparseable geometry
PrecisionCollections ==
    {<<AddressFeature, VenueFeature, BuildingFeature, LevelFeature>> \o units :
        units \in [1..2 -> {UnitFeature(id, g) :
                              id \in {"uuid-1", "uuid-2", "unit-x"},
                              g \in {"polyA", "polyA9", "polyB", None, "emptyPoly", "garbage"}}]}

\* Collections that lack the venue, the building or the level, or hold the level
\* under a malformed id; a unit's id may be malformed, empty or missing
PartialCollections ==
    {head \o units :
        head \in {<<>>, <<BuildingFeature, LevelFeature>>,
                  <<AddressFeature, VenueFeature, LevelFeature>>,
                  <<AddressFeature, VenueFeature, BuildingFeature>>,
                  <<AddressFeature, VenueFeature, BuildingFeature,
                    [LevelFeature EXCEPT !.id = "unit-x"]>>},
        units \in SeqsUpTo({UnitFeature(id, "polyA") : id \in {"uuid-1", "unit-x", "", None}}, 2)}

\* The ordinals of the levels of a venue; <<>> is a level without an integer ordinal
LevelOrdinalValues == {<<>>} \cup {<<n>> : n \in -2..2}

LevelIds == <<"uuid-l", "uuid-m", "uuid-n", "uuid-o", "uuid-p">>

\* A generated venue with up to MaxLevels levels, of any ordinals, and no units
LevelCollections ==
    {<<AddressFeature, VenueFeature, BuildingFeature>>
        \o [k \in 1..Len(ordinals) |->
               [LevelFeature EXCEPT !.id = LevelIds[k], !.properties.ordinal = ordinals[k]]] :
        ordinals \in SeqsUpTo(LevelOrdinalValues, MaxLevels)}

\* A generated venue whose address, building or level is held, and referenced, under a
\* malformed id
ReferenceCollections ==
    {<<[AddressFeature EXCEPT !.id = "zone-9"],
       [VenueFeature EXCEPT !.properties.address_id = "zone-9"],
       BuildingFeature, LevelFeature, UnitFeature("uuid-1", "polyA")>>,
     <<AddressFeature, VenueFeature, [BuildingFeature EXCEPT !.id = "zone-9"],
       [LevelFeature EXCEPT !.properties.building_ids = <<"zone-9">>],
       UnitFeature("uuid-1", "polyA")>>,
     <<AddressFeature, VenueFeature, BuildingFeature, [LevelFeature EXCEPT !.id = "zone-9"],
       [UnitFeature("uuid-1", "polyA") EXCEPT !.properties.level_id = "zone-9"]>>}

PipelineCollections ==
    UnitCollections \cup PrecisionCollections \cup PartialCollections \cup LevelCollections
        \cup ReferenceCollections

(***************************************************************************)
(* The pipeline: a caller validates a collection, applies autofix with the *)
(* validation, revalidates the result, and may go round again with the     *)
(* updated collection and its validation.                                  *)
(***************************************************************************)
NoValidation == [errors |-> <<>>, warnings |-> <<>>, passed |-> {}, summary |-> <<>>]

NoAutofix == [ran |-> FALSE, apply_prompted |-> FALSE, updated |-> <<>>,
              fixes_applied |-> <<>>, prompts |-> <<>>]

NoPrevious == [ran |-> FALSE, apply_prompted |-> FALSE]

AutofixCall(rows, validation_response, apply_prompted, stream) ==
    LET result == apply_autofix(rows, validation_response, apply_prompted, stream)
    IN [ran |-> TRUE, apply_prompted |-> apply_prompted, updated |-> result.updated,
        fixes_applied |-> result.fixes_applied, prompts |-> result.prompts]

NoSession == [exists |-> FALSE]
NoResponse == [endpoint |-> "none"]
NotGenerated == [generated |-> FALSE, features |-> <<>>]
NoCall == <<>>
NotReturned == [returned |-> FALSE]

\* the session manager with nothing stored and no handler in flight
NoRecord == [exists |-> FALSE]
IdleHandler == [pc |-> "idle"]
ManagerIdle ==
    /\ backend_name = "memory"
    /\ stored = {}
    /\ objects = <<>>
    /\ clock = 0
    /\ handlers = <<>>

InitPipeline ==
    /\ feature_collection \in PipelineCollections
    /\ validation = NoValidation
    /\ autofix = NoAutofix
    /\ rerun = NoAutofix
    /\ revalidation = NoValidation
    /\ previous = NoPrevious
    /\ pc = "input"
    /\ session = NoSession
    /\ response = NoResponse
    /\ gen_input = NoSession
    /\ gen_output = NotGenerated
    /\ call_args = NoCall
    /\ call_return = NotReturned
    /\ ManagerIdle

\* validation = validate_feature_collection(collection)
Validate ==
    /\ pc = "input"
    /\ validation' = validate_feature_collection(feature_collection)
    /\ pc' = "validated"
    /\ UNCHANGED <<feature_collection, autofix, rerun, revalidation, previous>>
    /\ UNCHANGED <<endpoint_vars, generator_vars, function_vars, manager_vars>>

\* fixed, fixes_applied, prompts = apply_autofix(collection, validation, apply_prompted)
ApplyAutofix ==
    /\ pc = "validated"
    /\ \E apply_prompted \in BOOLEAN, stream \in Uuid4Streams :
          autofix' = AutofixCall(feature_collection, validation, apply_prompted, stream)
    /\ pc' = "fixed"
    /\ UNCHANGED <<feature_collection, validation, rerun, revalidation, previous>>
    /\ UNCHANGED <<endpoint_vars, generator_vars, function_vars, manager_vars>>

\* A second call of apply_autofix with the same collection, validation and flag
Rerun ==
    /\ pc = "fixed"
    /\ ~rerun.ran
    /\ \E stream \in Uuid4Streams :
          rerun' = AutofixCall(feature_collection, validation, autofix.apply_prompted, stream)
    /\ UNCHANGED <<feature_collection, validation, autofix, revalidation, previous, pc>>
    /\ UNCHANGED <<endpoint_vars, generator_vars, function_vars, manager_vars>>

\* after = validate_feature_collection(fixed)
Revalidate ==
    /\ pc = "fixed"
    /\ revalidation' = validate_feature_collection(autofix.updated)
    /\ pc' = "revalidated"
    /\ rerun' = NoAutofix
    /\ UNCHANGED <<feature_collection, validation, autofix, previous>>
    /\ UNCHANGED <<endpoint_vars, generator_vars, function_vars, manager_vars>>

\* The next round starts from the updated collection and its validation
NextRound ==
    /\ pc = "revalidated"
    /\ feature_collection' = autofix.updated
    /\ validation' = revalidation
    /\ previous' = [ran |-> TRUE, apply_prompted |-> autofix.apply_prompted]
    /\ autofix' = NoAutofix
    /\ revalidation' = NoValidation
    /\ pc' = "validated"
    /\ UNCHANGED rerun
    /\ UNCHANGED <<endpoint_vars, generator_vars, function_vars, manager_vars>>

NextPipeline == Validate \/ ApplyAutofix \/ Revalidate \/ NextRound

SpecPipeline == InitPipeline /\ [][NextPipeline]_vars

NextRerun == Validate \/ ApplyAutofix \/ Rerun

SpecRerun == InitPipeline /\ [][NextRerun]_vars


(***************************************************************************)
(* validator.annotate_feature_collection_with_validation                   *)
(***************************************************************************)
\* an annotation that looks for a warning before it looks for an error
annotate_feature_collection_with_validation_WarningFirst(rows, report) ==
    LET all_issues == report.errors \o report.warnings
    IN [i \in 1..Len(rows) |->
           LET fid == _feature_id(rows[i])
               issues == IF fid = None THEN <<>>
                         ELSE Filter(all_issues, LAMBDA issue :
                                  issue.feature_id \notin {None, ""} /\ issue.feature_id = fid)
               status ==
                   IF \E k \in 1..Len(issues) : issues[k].severity = "warning" THEN "warning"
                   ELSE IF \E k \in 1..Len(issues) : issues[k].severity = "error"
                   THEN "error"
                   ELSE IF StripLower(_props(rows[i]).category) = "unspecified"
                   THEN "unspecified"
                   ELSE "mapped"
           IN [rows[i] EXCEPT !.properties.status = status, !.properties.issues = issues]]

\* lines 423-453
annotate_feature_collection_with_validation(rows, report) ==
    LET all_issues == report.errors \o report.warnings
    IN [i \in 1..Len(rows) |->
           LET fid == _feature_id(rows[i])
               issues == IF fid = None THEN <<>>
                         ELSE Filter(all_issues, LAMBDA issue :
                                  issue.feature_id \notin {None, ""} /\ issue.feature_id = fid)
               status ==
                   IF \E k \in 1..Len(issues) : issues[k].severity = "error" THEN "error"
                   ELSE IF \E k \in 1..Len(issues) : issues[k].severity = "warning"
                   THEN "warning"
                   ELSE IF StripLower(_props(rows[i]).category) = "unspecified"
                   THEN "unspecified"
                   ELSE "mapped"
           IN [rows[i] EXCEPT !.properties.status = status, !.properties.issues = issues]]

(***************************************************************************)
(* The session endpoints: routers/features_router.py and                   *)
(* routers/export_router.py on one stored session.  session.validation is  *)
(* None until a handler assigns it (validated is FALSE until then).  The   *)
(* response records the endpoint, the status code, the detail of an error  *)
(* and whether an archive was returned.                                    *)
(***************************************************************************)
Reply(endpoint, status_code, detail, archive) ==
    [endpoint |-> endpoint, status_code |-> status_code, detail |-> detail,
     archive |-> archive]

\* features_router._find_feature_index: the first row whose str(id) is feature_id, 0 for None
_find_feature_index(features, feature_id) ==
    LET Matching == {i \in 1..Len(features) : features[i].id = feature_id}
    IN IF Matching = {} THEN 0 ELSE CHOOSE i \in Matching : \A j \in Matching : i <= j

\* features_router._merge_properties for the keys a request of the model sends
_merge_properties(current, updates) ==
    [key \in DOMAIN current |-> IF key \in DOMAIN updates THEN updates[key] ELSE current[key]]

\* The ids a request names and the payloads it sends
RequestIds == {"uuid-1", "uuid-2"}

PatchPayloads ==
    {[has_properties |-> TRUE, properties |-> [level_id |-> None],
      has_geometry |-> FALSE, geometry |-> None],
     [has_properties |-> TRUE, properties |-> [level_id |-> "uuid-l"],
      has_geometry |-> FALSE, geometry |-> None],
     [has_properties |-> FALSE, properties |-> [level_id |-> None],
      has_geometry |-> TRUE, geometry |-> None]}

BulkPayloads ==
    {[feature_ids |-> {}, action |-> "patch", has_properties |-> TRUE,
      properties |-> [level_id |-> None]]}
    \cup {[feature_ids |-> RequestIds, action |-> action, has_properties |-> FALSE,
           properties |-> [level_id |-> None]] :
              action \in {"patch", "delete", "merge_units"}}
    \cup {[feature_ids |-> RequestIds, action |-> "patch", has_properties |-> TRUE,
           properties |-> [level_id |-> None]]}
    \cup {[feature_ids |-> RequestIds \cup {"uuid-l"}, action |-> "merge_units",
           has_properties |-> FALSE, properties |-> [level_id |-> None]]}

\* A generated venue with one or two units: distinct, of one geometry, or one of them
\* under a malformed id.  The building's category is unspecified, in either spelling
SessionCollections ==
    {<<AddressFeature, VenueFeature, building, LevelFeature>> \o units :
        building \in {BuildingFeature,
                      [BuildingFeature EXCEPT !.properties.category = "Unspecified "]},
        units \in {<<UnitFeature("uuid-1", "polyA")>>,
                   <<UnitFeature("uuid-1", "polyA"), UnitFeature("uuid-2", "polyB")>>,
                   <<UnitFeature("uuid-1", "polyA"), UnitFeature("uuid-2", "polyA")>>,
                   <<UnitFeature("uuid-1", "polyA"), UnitFeature("zone-9", "polyB")>>}}

\* The values of a stream that no feature of the collection has as its id: a random UUID
\* collides with an existing one with negligible probability
FreshStream(stream, rows) ==
    Filter(stream, LAMBDA value : \A i \in 1..Len(rows) : rows[i].id # value)

InitSession ==
    /\ \E rows \in SessionCollections :
          session = [exists |-> TRUE, feature_collection |-> rows,
                     validated |-> FALSE, validation |-> NoValidation]
    /\ response = NoResponse
    /\ feature_collection = <<>>
    /\ validation = NoValidation
    /\ autofix = NoAutofix
    /\ rerun = NoAutofix
    /\ revalidation = NoValidation
    /\ previous = NoPrevious
    /\ pc = "session"
    /\ gen_input = NoSession
    /\ gen_output = NotGenerated
    /\ call_args = NoCall
    /\ call_return = NotReturned
    /\ ManagerIdle

\* features_router.patch_feature
PatchFeature(ids, payloads) ==
    /\ session.exists
    /\ \E feature_id \in ids, payload \in payloads :
          LET features == session.feature_collection
              index == _find_feature_index(features, feature_id)
              merged == IF payload.has_properties
                        THEN [features[index] EXCEPT
                                 !.properties = _merge_properties(@, payload.properties)]
                        ELSE features[index]
              updated == IF payload.has_geometry
                         THEN [merged EXCEPT !.geometry = payload.geometry]
                         ELSE merged
          IN IF index = 0
             THEN /\ response' = Reply("patch_feature", 404, "Feature not found", FALSE)
                  /\ UNCHANGED session
             ELSE /\ session' = [session EXCEPT
                                    !.feature_collection = [features EXCEPT ![index] = updated]]
                  /\ response' = Reply("patch_feature", 200, "", FALSE)
    /\ UNCHANGED <<pipeline_vars, generator_vars, function_vars, manager_vars>>

\* features_router.delete_feature
DeleteFeature(ids) ==
    /\ session.exists
    /\ \E feature_id \in ids :
          LET features == session.feature_collection
              index == _find_feature_index(features, feature_id)
          IN IF index = 0
             THEN /\ response' = Reply("delete_feature", 404, "Feature not found", FALSE)
                  /\ UNCHANGED session
             ELSE /\ session' = [session EXCEPT !.feature_collection =
                                    [k \in 1..(Len(features) - 1) |->
                                        IF k < index THEN features[k] ELSE features[k + 1]]]
                  /\ response' = Reply("delete_feature", 200, "", FALSE)
    /\ UNCHANGED <<pipeline_vars, generator_vars, function_vars, manager_vars>>

\* features_router.patch_features_bulk, lines 184-214: the merge_units action, with the
\* value its uuid4() call returns
MergeUnits(features, feature_ids, new_id) ==
    LET selected == Filter(features, LAMBDA item :
                        item.id \in feature_ids /\ item.feature_type = "unit")
        geometries == FlatMap(Len(selected), LAMBDA k :
                          IF selected[k].geometry = None THEN <<>> ELSE <<selected[k].geometry>>)
        union[n \in 1..Len(geometries)] ==
            IF n = 1 THEN geometries[1] ELSE unary_union(union[n - 1], geometries[n])
        template == [selected[1] EXCEPT !.id = new_id, !.geometry = union[Len(geometries)]]
        kept == Filter(features, LAMBDA item : item.id \notin feature_ids)
    IN IF Len(selected) < 2
       THEN [ok |-> FALSE, features |-> features, deleted_count |-> 0,
             detail |-> "merge_units requires at least two selected unit features"]
       ELSE IF Len(geometries) < 2
       THEN [ok |-> FALSE, features |-> features, deleted_count |-> 0,
             detail |-> "merge_units requires at least two unit geometries"]
       ELSE [ok |-> TRUE, features |-> Append(kept, template),
             deleted_count |-> Len(selected), detail |-> ""]

\* BulkPatchFeaturesResponse: the reply of a bulk request that succeeded
BulkPatchFeaturesResponse(updated_count, deleted_count, merged_feature_id) ==
    [updated_count |-> updated_count, deleted_count |-> deleted_count,
     merged_feature_id |-> merged_feature_id] @@ Reply("patch_features_bulk", 200, "", FALSE)

\* features_router.patch_features_bulk
PatchFeaturesBulk(payloads, streams) ==
    /\ session.exists
    /\ \E payload \in payloads, stream \in streams :
          LET features == session.feature_collection
              merge == MergeUnits(features, payload.feature_ids,
                                  FreshStream(stream, features)[1])
          IN IF payload.feature_ids = {}
             THEN /\ response' = BulkPatchFeaturesResponse(0, 0, None)
                  /\ UNCHANGED session
             ELSE IF payload.action = "delete"
             THEN /\ session' = [session EXCEPT !.feature_collection =
                                    Filter(features, LAMBDA item : item.id \notin payload.feature_ids)]
                  /\ response' = BulkPatchFeaturesResponse(0,
                         Len(features) - Len(Filter(features, LAMBDA item :
                                                 item.id \notin payload.feature_ids)), None)
             ELSE IF payload.action = "merge_units"
             THEN /\ session' = [session EXCEPT !.feature_collection = merge.features]
                  /\ response' = IF merge.ok
                                 THEN BulkPatchFeaturesResponse(1, merge.deleted_count,
                                          FreshStream(stream, features)[1])
                                 ELSE Reply("patch_features_bulk", 400, merge.detail, FALSE)
             ELSE IF ~payload.has_properties
             THEN /\ response' = Reply("patch_features_bulk", 400,
                                       "Bulk patch requires properties payload", FALSE)
                  /\ UNCHANGED session
             ELSE /\ session' = [session EXCEPT !.feature_collection =
                                    [k \in 1..Len(features) |->
                                        IF features[k].id \in payload.feature_ids
                                        THEN [features[k] EXCEPT !.properties =
                                                 _merge_properties(@, payload.properties)]
                                        ELSE features[k]]]
                  /\ response' = BulkPatchFeaturesResponse(
                         Len(Filter(features, LAMBDA item : item.id \in payload.feature_ids)),
                         0, None)
    /\ UNCHANGED <<pipeline_vars, generator_vars, function_vars, manager_vars>>

\* the annotation written to the source collection as well
WithValidation_AnnotatesSource(record, report) ==
    [record EXCEPT
        !.feature_collection = annotate_feature_collection_with_validation(@, report),
        !.source_feature_collection = annotate_feature_collection_with_validation(@, report),
        !.validated = TRUE,
        !.validation = report]

\* export_router lines 30-32, 55-57 and 77-79: the session annotated with a validation
\* of its working collection, which it stores
WithValidation(record, report) ==
    [record EXCEPT
        !.feature_collection = annotate_feature_collection_with_validation(@, report),
        !.validated = TRUE,
        !.validation = report]

\* export_router.validate_session
ValidateSession ==
    /\ session.exists
    /\ session' = WithValidation(session, validate_feature_collection(session.feature_collection))
    /\ response' = Reply("validate_session", 200, "", FALSE)
    /\ UNCHANGED <<pipeline_vars, generator_vars, function_vars, manager_vars>>

\* export_router.autofix_session, line 48: session.validation or a validation of the
\* working collection
AutofixValidation(record) ==
    IF record.validated THEN record.validation
    ELSE validate_feature_collection(record.feature_collection)

\* export_router.autofix_session
AutofixSession(streams) ==
    /\ session.exists
    /\ \E apply_prompted \in BOOLEAN, stream \in streams :
          \E result \in {apply_autofix(session.feature_collection, AutofixValidation(session),
                                       apply_prompted,
                                       FreshStream(stream, session.feature_collection))} :
             /\ session' = WithValidation([session EXCEPT !.feature_collection = result.updated],
                                          validate_feature_collection(result.updated))
             /\ response' = [fixes_applied |-> result.fixes_applied]
                               @@ Reply("autofix_session", 200, "", FALSE)
    /\ UNCHANGED <<pipeline_vars, generator_vars, function_vars, manager_vars>>

\* export_imdf deciding by the validation the session stores, if it stores one
ExportValidation_Stored(record) ==
    IF record.validated THEN record.validation
    ELSE validate_feature_collection(record.feature_collection)

\* export_router.export_imdf, line 77: the validation that decides is made by the request
ExportValidation(record) == validate_feature_collection(record.feature_collection)

\* export_router.export_imdf
ExportImdf ==
    /\ session.exists
    /\ \E report \in {ExportValidation(session)} :
          /\ session' = WithValidation(session, report)
          /\ response' =
                IF report.summary.error_count > 0
                THEN Reply("export_imdf", 400,
                           "Export blocked: unresolved validation errors remain.", FALSE)
                ELSE Reply("export_imdf", 200, "", TRUE)
    /\ UNCHANGED <<pipeline_vars, generator_vars, function_vars, manager_vars>>

NextSession ==
    \/ PatchFeature(RequestIds, PatchPayloads)
    \/ DeleteFeature(RequestIds)
    \/ PatchFeaturesBulk(BulkPayloads, Uuid4Streams)
    \/ ValidateSession
    \/ AutofixSession(Uuid4Streams)
    \/ ExportImdf

SpecSession == InitSession /\ [][NextSession]_vars


(***************************************************************************)
(* generator.generate_feature_collection on a session: its files, the rows *)
(* of its source collection, and its wizard state (level items, buildings, *)
(* project).  The mapping columns of the wizard are not configured, so a   *)
(* unit gets the default category.  A level of a file is <<>> for None and *)
(* <<n>> for the ordinal n.  Generated properties extend NoProperties by   *)
(* the text of the short name and the source file(s).                      *)
(***************************************************************************)
ImportedFile(stem, detected_type, detected_level) ==
    [stem |-> stem, detected_type |-> detected_type, detected_level |-> detected_level,
     level_name |-> None, short_name |-> None, outdoor |-> FALSE,
     level_category |-> "unspecified"]

LevelWizardItem(stem, detected_type, ordinal, name, short_name, outdoor, category) ==
    [stem |-> stem, detected_type |-> detected_type, ordinal |-> ordinal, name |-> name,
     short_name |-> short_name, outdoor |-> outdoor, category |-> category]

BuildingWizardState(id, file_stems) ==
    [id |-> id, name |-> None, category |-> "unspecified", file_stems |-> file_stems,
     address_feature_id |-> None]

SourceRow(id, geometry, source_file) ==
    [id |-> id, geometry |-> geometry, source_file |-> source_file]

LEVEL_FILE_TYPES == {"unit", "opening", "fixture", "detail"}

\* generator._stable_id: uuid5 of "<session_id>:<key>"
_stable_id(session_id, key) == "uuid5(" \o session_id \o ":" \o key \o ")"

\* wizard._default_short_name
wizard_default_short_name(ordinal) ==
    IF ordinal = <<>> THEN None
    ELSE IF ordinal[1] = 0 THEN "GF"
    ELSE IF ordinal[1] > 0 THEN ToString(ordinal[1]) \o "F"
    ELSE "B" \o ToString(-ordinal[1])

\* generator._default_short_name
_default_short_name(ordinal) ==
    IF ordinal = 0 THEN "GH"
    ELSE IF ordinal > 0 THEN ToString(ordinal) \o "F"
    ELSE "B" \o ToString(-ordinal)

\* mapper.wrap_labels: a LABELS object for a text, None for None
wrap_labels(value) == IF value = None THEN None ELSE "labels"

\* generator._display_point: the representative point of a geometry
_display_point(g) ==
    IF g = None \/ is_empty(g) THEN None
    ELSE IF g = "polyB" THEN "ptB"
    ELSE IF g = "lineL" THEN "ptL"
    ELSE "ptA"

\* the level items of the files, for wizard.seed_wizard_state (seeded) and for
\* generator._level_items_from_files
LevelItemsOfFiles(files, seeded) ==
    FlatMap(Len(files), LAMBDA k :
        IF files[k].detected_type \in LEVEL_FILE_TYPES
        THEN <<LevelWizardItem(files[k].stem, files[k].detected_type, files[k].detected_level,
                   files[k].level_name,
                   IF seeded /\ files[k].short_name = None
                   THEN wizard_default_short_name(files[k].detected_level)
                   ELSE files[k].short_name,
                   files[k].outdoor, files[k].level_category)>>
        ELSE <<>>)

\* wizard.seed_wizard_state
seed_wizard_state(record) ==
    [record EXCEPT
        !.buildings = IF @ = <<>>
                      THEN <<BuildingWizardState("building-1",
                                 {record.files[k].stem : k \in 1..Len(record.files)})>>
                      ELSE @,
        !.levels_items = IF @ = <<>> THEN LevelItemsOfFiles(record.files, TRUE) ELSE @]

\* file_map: the last file of a stem
HasFile(files, stem) == \E k \in 1..Len(files) : files[k].stem = stem

file_map(files, stem) ==
    files[CHOOSE k \in 1..Len(files) :
              files[k].stem = stem /\ \A j \in (k + 1)..Len(files) : files[j].stem # stem]

\* the geometry of a source row is a dict that is not empty
HasShape(row) == row.geometry # None /\ ~is_empty(row.geometry)

\* the file of the row's stem is a unit file
OfUnitFile(files, row) ==
    /\ row.source_file # None
    /\ HasFile(files, row.source_file)
    /\ file_map(files, row.source_file).detected_type = "unit"

\* the first value of a sequence that is not None, None if there is none
FirstGiven(values) ==
    IF \A k \in 1..Len(values) : values[k] = None THEN None
    ELSE values[CHOOSE k \in 1..Len(values) :
                    values[k] # None /\ \A j \in 1..(k - 1) : values[j] = None]

\* generator._collect_level_groups: the ordinals of the groups
GroupOrdinals(items) ==
    {items[k].ordinal[1] : k \in {n \in 1..Len(items) : items[n].ordinal # <<>>}}

\* generator._collect_level_groups: the group of an ordinal
LevelGroup(items, ordinal) ==
    [ordinal |-> ordinal,
     name |-> FirstGiven(FlatMap(Len(items), LAMBDA k :
                  IF items[k].ordinal = <<ordinal>> THEN <<items[k].name>> ELSE <<>>)),
     short_name |-> FirstGiven(FlatMap(Len(items), LAMBDA k :
                  IF items[k].ordinal = <<ordinal>> THEN <<items[k].short_name>> ELSE <<>>)),
     category |-> LET named == FlatMap(Len(items), LAMBDA k :
                          IF items[k].ordinal = <<ordinal>> /\ items[k].category # "unspecified"
                          THEN <<items[k].category>> ELSE <<>>)
                  IN IF named = <<>> THEN "unspecified" ELSE named[Len(named)],
     outdoor |-> \E k \in 1..Len(items) : items[k].ordinal = <<ordinal>> /\ items[k].outdoor,
     stems |-> {items[k].stem : k \in {n \in 1..Len(items) : items[n].ordinal = <<ordinal>>}}]

\* unary_union of a non-empty list
UnionAll(geometries) ==
    LET union[n \in 1..Len(geometries)] ==
            IF n = 1 THEN geometries[1] ELSE unary_union(union[n - 1], geometries[n])
    IN union[Len(geometries)]

\* lines 222-239: polygon_geoms of a level: the unit geometries of its stems, or, if
\* there is none, the polygons among the rows of its stems
LevelPolygons(record, stems) ==
    LET of_units == Filter(record.source_rows, LAMBDA row :
                        row.source_file \in stems /\ OfUnitFile(record.files, row)
                        /\ HasShape(row))
        polygons == Filter(record.source_rows, LAMBDA row :
                        /\ row.source_file \in stems
                        /\ HasShape(row)
                        /\ GeometryType(row.geometry) \in {"Polygon", "MultiPolygon"})
        chosen == IF of_units # <<>> THEN of_units ELSE polygons
    IN [k \in 1..Len(chosen) |-> chosen[k].geometry]

\* sorted() of building uuids: the uuid5 values are ordered by this list of their keys
BuildingUuidOrder == <<"building-2", "building-1">>

\* linked_buildings without the fallback to the first building
LinkedBuildings_NoFallback(buildings, stems) ==
    LET linked == {buildings[k].id : k \in {n \in 1..Len(buildings) :
                                              buildings[n].file_stems \cap stems # {}}}
    IN Filter(BuildingUuidOrder, LAMBDA id : id \in linked)

\* lines 252-258: linked_buildings, as the building ids in the order of their uuids
LinkedBuildings(buildings, stems) ==
    LET linked == {buildings[k].id : k \in {n \in 1..Len(buildings) :
                                              buildings[n].file_stems \cap stems # {}}}
        sorted == Filter(BuildingUuidOrder, LAMBDA id : id \in linked)
    IN IF sorted = <<>> /\ buildings # <<>> THEN <<buildings[1].id>> ELSE sorted

GeneratedProperties(properties, short_name_text, source_file, source_files) ==
    [short_name_text |-> short_name_text, source_file |-> source_file,
     source_files |-> source_files] @@ properties

\* lines 221-284: the level of a group, <<>> if the group has no polygon
LevelOfGroup(record, group, polygons) ==
    IF polygons = <<>> \/ is_empty(UnionAll(polygons)) THEN <<>>
    ELSE <<Feature(_stable_id(record.session_id, "level:" \o ToString(group.ordinal)), "level",
               UnionAll(polygons),
               GeneratedProperties(
                   [NoProperties EXCEPT
                       !.category = group.category,
                       !.outdoor = IF group.outdoor THEN "True" ELSE "False",
                       !.ordinal = <<group.ordinal>>,
                       !.name = "labels",
                       !.short_name = "labels",
                       !.display_point = _display_point(UnionAll(polygons)),
                       !.building_ids =
                           [k \in 1..Len(LinkedBuildings(record.buildings, group.stems)) |->
                               _stable_id(record.session_id, "building:"
                                   \o LinkedBuildings(record.buildings, group.stems)[k])],
                       !.status = "mapped"],
                   IF group.short_name = None THEN _default_short_name(group.ordinal)
                   ELSE group.short_name,
                   None, group.stems))>>

\* line 122: session.wizard.levels.items or _level_items_from_files(session)
level_items(record) ==
    IF record.levels_items # <<>> THEN record.levels_items
    ELSE LevelItemsOfFiles(record.files, FALSE)

\* lines 217-284: level_features, by ascending ordinal
level_features(record) ==
    LET ordinals == SortedInts(GroupOrdinals(level_items(record)))
    IN FlatMap(Len(ordinals), LAMBDA k :
           LevelOfGroup(record, LevelGroup(level_items(record), ordinals[k]),
                        LevelPolygons(record,
                                      LevelGroup(level_items(record), ordinals[k]).stems)))

\* lines 293-305: the geometries of the footprint of a building on a level
FootprintGeometries(record, building, level) ==
    LET own == Filter(record.source_rows, LAMBDA row :
                   /\ row.source_file \in building.file_stems
                   /\ OfUnitFile(record.files, row)
                   /\ file_map(record.files, row.source_file).detected_level
                        = _props(level).ordinal
                   /\ HasShape(row))
    IN IF own # <<>> THEN [k \in 1..Len(own) |-> own[k].geometry]
       ELSE IF _stable_id(record.session_id, "building:" \o building.id)
                 \in Range(_props(level).building_ids)
       THEN <<level.geometry>>
       ELSE <<>>

FootprintCategory(ordinal) ==
    IF ordinal = 0 THEN "ground" ELSE IF ordinal > 0 THEN "aerial" ELSE "subterranean"

\* lines 286-331: footprint_features, by building and ascending ordinal
footprint_features(record, levels) ==
    FlatMap(Len(record.buildings), LAMBDA b :
        FlatMap(Len(levels), LAMBDA k :
            IF FootprintGeometries(record, record.buildings[b], levels[k]) = <<>> THEN <<>>
            ELSE <<Feature(_stable_id(record.session_id,
                               "footprint:" \o record.buildings[b].id \o ":"
                                   \o ToString(_props(levels[k]).ordinal[1])),
                           "footprint",
                           UnionAll(FootprintGeometries(record, record.buildings[b], levels[k])),
                           GeneratedProperties(
                               [NoProperties EXCEPT
                                   !.category = FootprintCategory(_props(levels[k]).ordinal[1]),
                                   !.building_ids = <<_stable_id(record.session_id,
                                       "building:" \o record.buildings[b].id)>>,
                                   !.ordinal = _props(levels[k]).ordinal,
                                   !.status = "mapped"],
                               None, None, {}))>>))

\* lines 329-336: anchor_geom, the ground footprint of the building or else its first
AnchorGeometry(session_id, building, footprints) ==
    LET mine == Filter(footprints, LAMBDA footprint :
                    _props(footprint).building_ids
                        = <<_stable_id(session_id, "building:" \o building.id)>>)
        ground == Filter(mine, LAMBDA footprint : _props(footprint).ordinal = <<0>>)
    IN IF ground # <<>> THEN ground[Len(ground)].geometry
       ELSE IF mine # <<>> THEN mine[1].geometry
       ELSE None

\* lines 333-356: building_features
building_features(record, footprints) ==
    [b \in 1..Len(record.buildings) |->
        Feature(_stable_id(record.session_id, "building:" \o record.buildings[b].id),
                "building", None,
                GeneratedProperties(
                    [NoProperties EXCEPT
                        !.name = wrap_labels(IF record.buildings[b].name # None
                                             THEN record.buildings[b].name
                                             ELSE IF record.project THEN "text" ELSE None),
                        !.category = record.buildings[b].category,
                        !.display_point = _display_point(
                            AnchorGeometry(record.session_id, record.buildings[b], footprints)),
                        !.address_id = record.buildings[b].address_feature_id,
                        !.status = "mapped"],
                    None, None, {}))]

\* lines 150-175: the address features: with a project, the stored venue address or one
\* that build_address_feature makes under the id that uuid4() returns
\* an address collector that builds a new address feature on every call
address_features_AlwaysBuilt(record, new_id) ==
    IF record.project
    THEN <<Feature(new_id, "address", None, GeneratedProperties(NoProperties, None, None, {}))>>
    ELSE <<>>

address_features(record, new_id) ==
    IF record.project
    THEN <<Feature(IF record.venue_address_id = None THEN new_id ELSE record.venue_address_id,
                   "address", None, GeneratedProperties(NoProperties, None, None, {}))>>
    ELSE <<>>

\* lines 360-372: venue_geometries
VenueGeometries(record, footprints, levels) ==
    IF footprints # <<>> THEN [k \in 1..Len(footprints) |-> footprints[k].geometry]
    ELSE IF levels # <<>> THEN [k \in 1..Len(levels) |-> levels[k].geometry]
    ELSE LET of_units == Filter(record.source_rows, LAMBDA row :
                             OfUnitFile(record.files, row) /\ HasShape(row))
         IN [k \in 1..Len(of_units) |-> of_units[k].geometry]

\* lines 358-396: the venue, its geometry buffered by the venue buffer of 5 m
venue_feature(record, geometries, addresses) ==
    IF ~record.project \/ geometries = <<>> THEN <<>>
    ELSE <<Feature(_stable_id(record.session_id, "venue"), "venue", "levelPoly",
                   GeneratedProperties(
                       [NoProperties EXCEPT
                           !.category = "transitstation",
                           !.name = "labels",
                           !.display_point = "ptA",
                           !.address_id = addresses[1].id,
                           !.status = "mapped"],
                       None, None, {}))>>

\* level_id_by_ordinal.get(ordinal) answering with a level whatever the ordinal
level_id_by_ordinal_AnyLevel(levels, ordinal) ==
    IF levels = <<>> THEN None ELSE levels[1].id

\* lines 249 and 429: level_id_by_ordinal.get(ordinal), None without a level of the ordinal
level_id_by_ordinal(levels, ordinal) ==
    IF \A k \in 1..Len(levels) : _props(levels[k]).ordinal # ordinal THEN None
    ELSE levels[CHOOSE k \in 1..Len(levels) : _props(levels[k]).ordinal = ordinal].id

\* lines 406-431: the row becomes a feature
IsMapped(record, levels, row) ==
    /\ row.source_file # None
    /\ HasFile(record.files, row.source_file)
    /\ file_map(record.files, row.source_file).detected_type \in LEVEL_FILE_TYPES
    /\ HasShape(row)
    /\ file_map(record.files, row.source_file).detected_level # <<>>
    /\ level_id_by_ordinal(levels, file_map(record.files, row.source_file).detected_level)
         # None

\* lines 433-525: the properties of a mapped feature
MappedProperties(feature_type, level_id, geometry, stem) ==
    GeneratedProperties(
        [NoProperties EXCEPT
            !.category = CASE feature_type = "unit" -> "unspecified"
                           [] feature_type = "opening" -> "pedestrian"
                           [] feature_type = "fixture" -> "unspecified"
                           [] OTHER -> None,
            !.level_id = level_id,
            !.display_point = IF feature_type = "detail" THEN None ELSE _display_point(geometry),
            !.status = "mapped"],
        None, stem, {})

\* lines 405-535: mapped_features; a row without id gets the next value of uuid4()
mapped_features(record, levels, new_ids) ==
    FlatMap(Len(record.source_rows), LAMBDA k :
        IF ~IsMapped(record, levels, record.source_rows[k]) THEN <<>>
        ELSE <<Feature(
                 IF record.source_rows[k].id \notin {None, ""} THEN record.source_rows[k].id
                 ELSE new_ids[Cardinality({j \in 1..k :
                          record.source_rows[j].id \in {None, ""}
                          /\ IsMapped(record, levels, record.source_rows[j])})],
                 file_map(record.files, record.source_rows[k].source_file).detected_type,
                 record.source_rows[k].geometry,
                 MappedProperties(
                     file_map(record.files, record.source_rows[k].source_file).detected_type,
                     level_id_by_ordinal(levels,
                         file_map(record.files, record.source_rows[k].source_file).detected_level),
                     record.source_rows[k].geometry,
                     record.source_rows[k].source_file))>>)

\* lines 537-545: final_features
FinalFeatures(addresses, venue, buildings, footprints, levels, mapped) ==
    addresses \o venue \o buildings \o footprints \o levels \o mapped

AssembleWithFootprints(record, levels, footprints, addresses, new_ids) ==
    FinalFeatures(addresses,
                  venue_feature(record, VenueGeometries(record, footprints, levels), addresses),
                  building_features(record, footprints),
                  footprints, levels,
                  mapped_features(record, levels, new_ids))

AssembleWithLevels(record, levels, new_ids) ==
    AssembleWithFootprints(record, levels, footprint_features(record, levels),
                           address_features(record, new_ids[1]), Tail(new_ids))

\* generator.generate_feature_collection on the seeded session, with the values its
\* uuid4() calls return
generate_feature_collection(record, new_ids) ==
    AssembleWithLevels(record, level_features(record), new_ids)

(***************************************************************************)
(* The generator specification: a session with up to two files and a stem  *)
(* that no file has; the level editor of the wizard changes its level      *)
(* items and files, and generate_feature_collection is called on it.       *)
(***************************************************************************)
MaxOrdinal == 1

FileLevels == {<<>>} \cup {<<n>> : n \in 0..MaxOrdinal}

SessionFiles ==
    {<<ImportedFile("f1", "unit", level)>> : level \in FileLevels}
    \cup {<<ImportedFile("f1", "unit", first), ImportedFile("f2", detected_type, second)>> :
            first \in FileLevels, second \in FileLevels,
            detected_type \in {"unit", "opening", "venue"}}

SourceCollections ==
    {<<SourceRow("uuid-1", "polyA", "f1"), SourceRow("uuid-2", "polyB", "f2")>>,
     <<SourceRow("uuid-1", "polyA", "f1"), SourceRow(None, "lineL", "f2"),
       SourceRow("uuid-3", "polyB", "f3")>>,
     <<SourceRow("uuid-1", "emptyPoly", "f1"), SourceRow("uuid-2", "lineL", "f2"),
       SourceRow("", "polyB", "f2")>>,
     <<SourceRow("uuid-1", None, "f1"), SourceRow("uuid-2", "polyA", None),
       SourceRow("uuid-3", "polyA", "f1")>>}

SessionBuildings ==
    {<<>>,
     <<BuildingWizardState("building-1", {"f1"}), BuildingWizardState("building-2", {"f2"})>>,
     <<BuildingWizardState("building-2", {"f3"})>>}

\* wizard.project and the id of wizard.venue_address_feature: no project; the project
\* and the address feature that patch_wizard_project stores with it; a project without
\* a stored address feature
SessionProjects ==
    {[project |-> FALSE, venue_address_id |-> None],
     [project |-> TRUE, venue_address_id |-> "uuid-a"],
     [project |-> TRUE, venue_address_id |-> None]}

GeneratorUuids ==
    {<<"uuid-4", "uuid-5", "uuid-6", "uuid-7">>, <<"uuid-7", "uuid-6", "uuid-5", "uuid-4">>}

\* the items a request to the level editor carries: none, or one item per file of a
\* prefix of the files, with the ordinal, the short name and the outdoor flag it gives
LevelsPayloads(files) ==
    {<<>>}
    \cup {<<LevelWizardItem(files[1].stem, files[1].detected_type, ordinal, None,
                            short_name, outdoor, "unspecified")>> :
            ordinal \in FileLevels \cup {<<-1>>}, short_name \in {None, "L"},
            outdoor \in BOOLEAN}
    \cup {<<LevelWizardItem(files[1].stem, files[1].detected_type, first, None,
                            None, FALSE, "unspecified"),
            LevelWizardItem(files[Len(files)].stem, files[Len(files)].detected_type, second,
                            "Hall", None, FALSE, "parking")>> :
            first \in FileLevels, second \in FileLevels}

InitGenerator ==
    /\ \E files \in SessionFiles, rows \in SourceCollections, buildings \in SessionBuildings,
          wizard \in SessionProjects :
          gen_input = [exists |-> TRUE, session_id |-> "s1", files |-> files,
                       source_rows |-> rows, levels_items |-> <<>>, buildings |-> buildings,
                       project |-> wizard.project,
                       venue_address_id |-> wizard.venue_address_id,
                       generation_status |-> "not_started"]
    /\ gen_output = NotGenerated
    /\ feature_collection = <<>>
    /\ validation = NoValidation
    /\ autofix = NoAutofix
    /\ rerun = NoAutofix
    /\ revalidation = NoValidation
    /\ previous = NoPrevious
    /\ pc = "generator"
    /\ session = NoSession
    /\ response = NoResponse
    /\ call_args = NoCall
    /\ call_return = NotReturned
    /\ ManagerIdle

\* wizard_router.patch_wizard_levels, lines 389-404: the file of an item takes the
\* item's ordinal, name and short name where given, and its outdoor flag and category
UpdatedFile(file, items) ==
    IF \A k \in 1..Len(items) : items[k].stem # file.stem THEN file
    ELSE LET item == items[CHOOSE k \in 1..Len(items) :
                         items[k].stem = file.stem
                         /\ \A j \in (k + 1)..Len(items) : items[j].stem # file.stem]
         IN [file EXCEPT
                !.detected_level = IF item.ordinal # <<>> THEN item.ordinal ELSE @,
                !.level_name = IF item.name # None THEN item.name ELSE @,
                !.short_name = IF item.short_name # None THEN item.short_name ELSE @,
                !.outdoor = item.outdoor,
                !.level_category = item.category]

\* wizard_router.patch_wizard_levels
PatchWizardLevels ==
    /\ gen_input.exists
    /\ \E items \in LevelsPayloads(gen_input.files) :
          gen_input' =
              [seed_wizard_state(gen_input) EXCEPT
                  !.levels_items = items,
                  !.files = [k \in 1..Len(gen_input.files) |->
                                UpdatedFile(gen_input.files[k], items)],
                  !.generation_status = "not_started"]
    /\ gen_output' = NotGenerated
    /\ UNCHANGED <<pipeline_vars, endpoint_vars, function_vars, manager_vars>>

\* a call of generator.generate_feature_collection on the session
Generate ==
    /\ gen_input.exists
    /\ \E new_ids \in GeneratorUuids :
          /\ gen_input' = seed_wizard_state(gen_input)
          /\ gen_output' =
                [generated |-> TRUE,
                 features |-> generate_feature_collection(seed_wizard_state(gen_input), new_ids)]
    /\ UNCHANGED <<pipeline_vars, endpoint_vars, function_vars, manager_vars>>

NextGenerator ==
    \/ PatchWizardLevels
    \/ Generate

SpecGenerator == InitGenerator /\ [][NextGenerator]_vars

\* The sessions that the endpoints build: import gives every source row an id
\* (importer.py 203) and patch_wizard_project stores the venue address feature with the
\* project (wizard_router.py 363-364)
InitImported ==
    /\ InitGenerator
    /\ \A r \in 1..Len(gen_input.source_rows) : gen_input.source_rows[r].id \notin {None, ""}
    /\ gen_input.project => gen_input.venue_address_id # None

SpecImported == InitImported /\ [][NextGenerator]_vars


(***************************************************************************)
(* detector.detect_level_ordinal.  A stem is the sequence of its           *)
(* characters; the ordinal returned is <<n>>, or <<>> for None.            *)
(***************************************************************************)
LowerCase == <<"a", "b", "c", "d", "e", "f", "g", "h", "i", "j", "k", "l", "m",
               "n", "o", "p", "q", "r", "s", "t", "u", "v", "w", "x", "y", "z">>

UpperCase == <<"A", "B", "C", "D", "E", "F", "G", "H", "I", "J", "K", "L", "M",
               "N", "O", "P", "Q", "R", "S", "T", "U", "V", "W", "X", "Y", "Z">>

DigitChars == <<"0", "1", "2", "3", "4", "5", "6", "7", "8", "9">>

IndexIn(chars, c) == CHOOSE k \in 1..Len(chars) : chars[k] = c

\* line 65: stem.upper()
upper(stem) ==
    [k \in 1..Len(stem) |->
        IF stem[k] \in Range(LowerCase) THEN UpperCase[IndexIn(LowerCase, stem[k])]
        ELSE stem[k]]

\* \d
IsDigit(c) == c \in Range(DigitChars)

\* [A-Z0-9]
IsUpperAlnum(c) == c \in Range(UpperCase) \cup Range(DigitChars)

\* (^|[^A-Z0-9]) matches right before position p
BoundaryBefore(s, p) == p = 1 \/ ~IsUpperAlnum(s[p - 1])

\* ([^A-Z0-9]|$) matches right after position q
BoundaryAfter(s, q) == q = Len(s) \/ ~IsUpperAlnum(s[q + 1])

\* (\d+) from position p: the last position of the digits it takes, p - 1 if there is
\* none.  What follows the group in each pattern is not a digit, so it takes them all.
RECURSIVE DigitsEnd(_, _)
DigitsEnd(s, p) == IF p <= Len(s) /\ IsDigit(s[p]) THEN DigitsEnd(s, p + 1) ELSE p - 1

\* int(match.group(2)) of the digits at positions p..q
RECURSIVE int(_, _, _)
int(s, p, q) ==
    IF q < p THEN 0 ELSE 10 * int(s, p, q - 1) + (IndexIn(DigitChars, s[q]) - 1)

\* re.search: the leftmost position a pattern matches at, 0 if it matches nowhere
Leftmost(positions) ==
    IF positions = {} THEN 0 ELSE CHOOSE p \in positions : \A q \in positions : p <= q

\* line 67: (^|[^A-Z0-9])B(\d+)([^A-Z0-9]|$), as the position of the B
basement(s) ==
    Leftmost({p \in 1..Len(s) :
        /\ BoundaryBefore(s, p)
        /\ s[p] = "B"
        /\ DigitsEnd(s, p + 1) > p
        /\ BoundaryAfter(s, DigitsEnd(s, p + 1))})

\* line 71: (^|[^A-Z0-9])-(\d+)([^A-Z0-9]|$), as the position of the sign
negative(s) ==
    Leftmost({p \in 1..Len(s) :
        /\ BoundaryBefore(s, p)
        /\ s[p] = "-"
        /\ DigitsEnd(s, p + 1) > p
        /\ BoundaryAfter(s, DigitsEnd(s, p + 1))})

\* line 75: (^|[^A-Z0-9])(GF|GH|G)([^A-Z0-9]|$), as the position of the G
ground(s) ==
    Leftmost({p \in 1..Len(s) :
        /\ BoundaryBefore(s, p)
        /\ s[p] = "G"
        /\ \/ p < Len(s) /\ s[p + 1] = "F" /\ BoundaryAfter(s, p + 1)
           \/ p < Len(s) /\ s[p + 1] = "H" /\ BoundaryAfter(s, p + 1)
           \/ BoundaryAfter(s, p)})

\* line 78: (^|[^A-Z0-9])0([^A-Z0-9]|$), as the position of the 0
zero(s) ==
    Leftmost({p \in 1..Len(s) :
        /\ BoundaryBefore(s, p)
        /\ s[p] = "0"
        /\ BoundaryAfter(s, p)})

\* line 82: (^|[^A-Z0-9])(\d+)(F)?([^A-Z0-9]|$), as the position of the first digit
floor(s) ==
    Leftmost({p \in 1..Len(s) :
        /\ BoundaryBefore(s, p)
        /\ IsDigit(s[p])
        /\ \/ /\ DigitsEnd(s, p) < Len(s)
              /\ s[DigitsEnd(s, p) + 1] = "F"
              /\ BoundaryAfter(s, DigitsEnd(s, p) + 1)
           \/ BoundaryAfter(s, DigitsEnd(s, p))})

\* the patterns tried with the floor pattern ahead of the ground marker and the bare 0
detect_level_ordinal_FloorFirst(stem) ==
    LET normalized == upper(stem)
    IN IF basement(normalized) # 0
       THEN <<0 - int(normalized, basement(normalized) + 1,
                      DigitsEnd(normalized, basement(normalized) + 1))>>
       ELSE IF negative(normalized) # 0
       THEN <<0 - int(normalized, negative(normalized) + 1,
                      DigitsEnd(normalized, negative(normalized) + 1))>>
       ELSE IF floor(normalized) # 0
       THEN <<int(normalized, floor(normalized),
                  DigitsEnd(normalized, floor(normalized))) - 1>>
       ELSE IF ground(normalized) # 0 THEN <<0>>
       ELSE IF zero(normalized) # 0 THEN <<0>>
       ELSE <<>>

\* lines 64-87
detect_level_ordinal(stem) ==
    LET normalized == upper(stem)
    IN IF basement(normalized) # 0
       THEN <<0 - int(normalized, basement(normalized) + 1,
                      DigitsEnd(normalized, basement(normalized) + 1))>>
       ELSE IF negative(normalized) # 0
       THEN <<0 - int(normalized, negative(normalized) + 1,
                      DigitsEnd(normalized, negative(normalized) + 1))>>
       ELSE IF ground(normalized) # 0 THEN <<0>>
       ELSE IF zero(normalized) # 0 THEN <<0>>
       ELSE IF floor(normalized) # 0
       THEN <<int(normalized, floor(normalized),
                  DigitsEnd(normalized, floor(normalized))) - 1>>
       ELSE <<>>

(***************************************************************************)
(* The detector specification: detect_level_ordinal is called on a stem.   *)
(* The stems are every string of up to MaxStemLen characters over letters  *)
(* that occur in the patterns, a letter that does not, the two separators  *)
(* and three digits, and the stems of the test suite.                      *)
(***************************************************************************)
MaxStemLen == 5

StemAlphabet == {"s", "b", "g", "h", "f", "-", "_", "0", "1", "2"}

Station_B1_Space == <<"S", "t", "a", "t", "i", "o", "n", "_", "B", "1", "_", "S", "p", "a", "c", "e">>
Station_Minus2_Opening == <<"S", "t", "a", "t", "i", "o", "n", "_", "-", "2", "_", "O", "p", "e", "n", "i", "n", "g">>
Station_GF_Space == <<"S", "t", "a", "t", "i", "o", "n", "_", "G", "F", "_", "S", "p", "a", "c", "e">>
Station_2F_Space == <<"S", "t", "a", "t", "i", "o", "n", "_", "2", "F", "_", "S", "p", "a", "c", "e">>
Station_1_Space == <<"S", "t", "a", "t", "i", "o", "n", "_", "1", "_", "S", "p", "a", "c", "e">>

TestStems == {Station_B1_Space, Station_Minus2_Opening, Station_GF_Space, Station_2F_Space,
              Station_1_Space}

Stems == SeqsUpTo(StemAlphabet, MaxStemLen) \cup TestStems

InitDetector ==
    /\ call_args \in Stems
    /\ call_return = NotReturned
    /\ ManagerIdle
    /\ feature_collection = <<>>
    /\ validation = NoValidation
    /\ autofix = NoAutofix
    /\ rerun = NoAutofix
    /\ revalidation = NoValidation
    /\ previous = NoPrevious
    /\ pc = "detector"
    /\ session = NoSession
    /\ response = NoResponse
    /\ gen_input = NoSession
    /\ gen_output = NotGenerated

\* a call of detector.detect_level_ordinal(stem)
DetectLevelOrdinal ==
    /\ pc = "detector"
    /\ ~call_return.returned
    /\ call_return' = [returned |-> TRUE, value |-> detect_level_ordinal(call_args)]
    /\ UNCHANGED <<call_args, manager_vars, pipeline_vars, endpoint_vars, generator_vars>>

NextDetector == DetectLevelOrdinal

SpecDetector == InitDetector /\ [][NextDetector]_vars

(***************************************************************************)
(* importer: the geometry normaliser.  A coordinate is a whole number of   *)
(* UnitsPerStep-ths of the rounding step (1e-7 degree at precision 7), so  *)
(* that rounding moves it to the nearest multiple of UnitsPerStep.  A ring  *)
(* is the sequence of its points, the closing point included; a polygon    *)
(* has an exterior ring and interior rings; the empty polygon has the      *)
(* exterior <<>>.  Every function takes the running CleanupSummary and     *)
(* answers its value with the summary it leaves.                           *)
(***************************************************************************)
UnitsPerStep == 3

CleanupSummary ==
    [rings_closed |-> 0, features_reoriented |-> 0, multipolygons_exploded |-> 0,
     coordinates_rounded |-> 0, empty_features_dropped |-> 0]

\* a geometry that is None
NoGeometry == [type |-> "None"]

Polygon(exterior, interiors) ==
    [type |-> "Polygon", exterior |-> exterior, interiors |-> interiors]

MultiPolygon(geoms) == [type |-> "MultiPolygon", geoms |-> geoms]

Reversed(coords) == [k \in 1..Len(coords) |-> coords[Len(coords) + 1 - k]]

\* shapely's signed_area of a ring, doubled: positive for a counter-clockwise ring
RECURSIVE signed_area(_)
signed_area(coords) ==
    IF Len(coords) < 2 THEN 0
    ELSE coords[1][1] * coords[2][2] - coords[2][1] * coords[1][2] + signed_area(Tail(coords))

importer_is_empty(geom) ==
    IF geom.type = "Polygon" THEN geom.exterior = <<>> ELSE geom.geoms = <<>>

_close_ring(coords, summary) ==
    IF coords = <<>>
    THEN [value |-> coords, summary |-> summary]
    ELSE IF coords[1] # coords[Len(coords)]
         THEN [value |-> Append(coords, coords[1]),
               summary |-> [summary EXCEPT !.rings_closed = @ + 1]]
         ELSE [value |-> coords, summary |-> summary]

\* shapely's orient(polygon, sign=1.0): a clockwise exterior and a counter-clockwise
\* interior are reversed
orient(polygon) ==
    Polygon(IF signed_area(polygon.exterior) >= 0
            THEN polygon.exterior ELSE Reversed(polygon.exterior),
            [k \in 1..Len(polygon.interiors) |->
                IF signed_area(polygon.interiors[k]) <= 0
                THEN polygon.interiors[k] ELSE Reversed(polygon.interiors[k])])

\* the rings of the interiors closed one after the other, from the k-th on
RECURSIVE CloseInteriors(_, _, _)
CloseInteriors(interiors, k, summary) ==
    IF k > Len(interiors) THEN [value |-> <<>>, summary |-> summary]
    ELSE LET ring == _close_ring(interiors[k], summary)
             rest == CloseInteriors(interiors, k + 1, ring.summary)
         IN [value |-> <<ring.value>> \o rest.value, summary |-> rest.summary]

_normalize_polygon(polygon, summary) ==
    LET exterior == _close_ring(polygon.exterior, summary)
        interiors == CloseInteriors(polygon.interiors, 1, exterior.summary)
        rebuilt == Polygon(exterior.value, interiors.value)
        oriented == orient(rebuilt)
    IN [value |-> oriented,
        summary |-> IF rebuilt # oriented
                    THEN [interiors.summary EXCEPT !.features_reoriented = @ + 1]
                    ELSE interiors.summary]

\* the parts of a MultiPolygon normalised one after the other, from the k-th on
RECURSIVE NormalizeParts(_, _, _)
NormalizeParts(geoms, k, summary) ==
    IF k > Len(geoms) THEN [value |-> <<>>, summary |-> summary]
    ELSE LET part == _normalize_polygon(geoms[k], summary)
             rest == NormalizeParts(geoms, k + 1, part.summary)
         IN [value |-> <<part.value>> \o rest.value, summary |-> rest.summary]

_normalize_geometry(geom, summary) ==
    IF geom = NoGeometry THEN [value |-> NoGeometry, summary |-> summary]
    ELSE IF geom.type = "Polygon" THEN _normalize_polygon(geom, summary)
    ELSE IF geom.type = "MultiPolygon"
    THEN LET parts == NormalizeParts(geom.geoms, 1, summary)
         IN [value |-> MultiPolygon(parts.value), summary |-> parts.summary]
    ELSE [value |-> geom, summary |-> summary]

\* round(value, precision) of a coordinate that is not negative
round(value) == ((2 * value + UnitsPerStep) \div (2 * UnitsPerStep)) * UnitsPerStep

\* _round_json_value on the coordinates of a ring: the rounded ring
RoundedRing(coords) == [k \in 1..Len(coords) |-> <<round(coords[k][1]), round(coords[k][2])>>]

\* the number of coordinate values of a ring that rounding changes
RECURSIVE RoundedCount(_)
RoundedCount(coords) ==
    IF coords = <<>> THEN 0
    ELSE (IF round(coords[1][1]) # coords[1][1] THEN 1 ELSE 0)
         + (IF round(coords[1][2]) # coords[1][2] THEN 1 ELSE 0)
         + RoundedCount(Tail(coords))

RECURSIVE RoundedCountAll(_)
RoundedCountAll(rings) ==
    IF rings = <<>> THEN 0 ELSE RoundedCount(rings[1]) + RoundedCountAll(Tail(rings))

\* the geometry's mapping with every float rounded, made a geometry again by shape()
_round_geometry(geom, summary) ==
    [value |-> Polygon(RoundedRing(geom.exterior),
                       [k \in 1..Len(geom.interiors) |-> RoundedRing(geom.interiors[k])]),
     summary |-> [summary EXCEPT !.coordinates_rounded =
                      @ + RoundedCount(geom.exterior) + RoundedCountAll(geom.interiors)]]

\* shapely's make_valid, on the geometries of RawGeometries: they are valid, and a
\* valid geometry is returned as it is
importer_make_valid(geom) == geom

\* the loop of _clean_geometry over the candidates, from the k-th on
RECURSIVE CleanCandidates(_, _, _)
CleanCandidates(candidates, k, summary) ==
    IF k > Len(candidates) THEN [value |-> <<>>, summary |-> summary]
    ELSE IF candidates[k] = NoGeometry \/ importer_is_empty(candidates[k])
    THEN CleanCandidates(candidates, k + 1,
                         [summary EXCEPT !.empty_features_dropped = @ + 1])
    ELSE LET rounded == _round_geometry(candidates[k], summary)
         IN IF importer_is_empty(rounded.value)
            THEN CleanCandidates(candidates, k + 1,
                                 [rounded.summary EXCEPT !.empty_features_dropped = @ + 1])
            ELSE LET rest == CleanCandidates(candidates, k + 1, rounded.summary)
                 IN [value |-> <<rounded.value>> \o rest.value, summary |-> rest.summary]

_clean_geometry_CountsParts(geom, summary) ==
    IF geom = NoGeometry
    THEN [value |-> <<>>, summary |-> [summary EXCEPT !.empty_features_dropped = @ + 1]]
    ELSE LET fixed == importer_make_valid(geom)
             normalized == _normalize_geometry(fixed, summary)
         IN IF normalized.value.type = "MultiPolygon"
            THEN CleanCandidates(normalized.value.geoms, 1,
                     [normalized.summary EXCEPT !.multipolygons_exploded =
                          @ + Len(normalized.value.geoms)])
            ELSE CleanCandidates(<<normalized.value>>, 1, normalized.summary)

_clean_geometry(geom, summary) ==
    IF geom = NoGeometry
    THEN [value |-> <<>>, summary |-> [summary EXCEPT !.empty_features_dropped = @ + 1]]
    ELSE LET fixed == importer_make_valid(geom)
             normalized == _normalize_geometry(fixed, summary)
         IN IF normalized.value.type = "MultiPolygon"
            THEN CleanCandidates(normalized.value.geoms, 1,
                     [normalized.summary EXCEPT !.multipolygons_exploded =
                          @ + (IF Len(normalized.value.geoms) > 1
                               THEN Len(normalized.value.geoms) - 1 ELSE 0)])
            ELSE CleanCandidates(<<normalized.value>>, 1, normalized.summary)

(***************************************************************************)
(* The normaliser specification: _clean_geometry is called on one raw      *)
(* geometry with a fresh summary.  The raw geometries are no geometry, the *)
(* empty polygon, every triangle with corners on the MaxX by MaxY grid, in *)
(* both windings, and the multi-part polygons of up to MaxParts of four    *)
(* triangles, each part moved clear of the others.                         *)
(***************************************************************************)
MaxX == 6
MaxY == 3

GridPoints == {<<x, y>> : x \in 0..MaxX, y \in 0..MaxY}

Triangle(a, b, c) == Polygon(<<a, b, c, a>>, <<>>)

Triangles ==
    {Triangle(a, b, c) : a \in GridPoints, b \in GridPoints, c \in GridPoints}

ValidTriangles == {t \in Triangles : signed_area(t.exterior) # 0}

PartTriangles ==
    {Triangle(<<0, 0>>, <<3, 0>>, <<0, 3>>), Triangle(<<0, 0>>, <<0, 3>>, <<3, 0>>),
     Triangle(<<0, 0>>, <<1, 0>>, <<0, 1>>), Triangle(<<1, 1>>, <<6, 2>>, <<2, 3>>)}

\* the polygon moved clear of the grid, to the place of the k-th part
Moved(polygon, k) ==
    Polygon([j \in 1..Len(polygon.exterior) |->
                <<polygon.exterior[j][1] + (k - 1) * (MaxX + UnitsPerStep),
                  polygon.exterior[j][2]>>],
            polygon.interiors)

MaxParts == 3

MultiPolygons ==
    {MultiPolygon([k \in 1..Len(parts) |-> Moved(parts[k], k)]) :
        parts \in SeqsUpTo(PartTriangles, MaxParts) \ {<<>>}}

RawGeometries ==
    {NoGeometry, Polygon(<<>>, <<>>)} \cup ValidTriangles \cup MultiPolygons

InitNormalizer ==
    /\ call_args \in RawGeometries
    /\ call_return = NotReturned
    /\ ManagerIdle
    /\ feature_collection = <<>>
    /\ validation = NoValidation
    /\ autofix = NoAutofix
    /\ rerun = NoAutofix
    /\ revalidation = NoValidation
    /\ previous = NoPrevious
    /\ pc = "normalizer"
    /\ session = NoSession
    /\ response = NoResponse
    /\ gen_input = NoSession
    /\ gen_output = NotGenerated

\* a call of importer._clean_geometry(geom, summary) with a fresh summary
CleanGeometry ==
    /\ pc = "normalizer"
    /\ ~call_return.returned
    /\ call_return' = [returned |-> TRUE,
                       value |-> _clean_geometry(call_args, CleanupSummary).value,
                       summary |-> _clean_geometry(call_args, CleanupSummary).summary]
    /\ UNCHANGED <<call_args, manager_vars, pipeline_vars, endpoint_vars, generator_vars>>

NextNormalizer == CleanGeometry

SpecNormalizer == InitNormalizer /\ [][NextNormalizer]_vars

(***************************************************************************)
(* session: the SessionManager over a SessionBackend, and request handlers *)
(* that use it.  A call of the manager is one step.  The backend holds a   *)
(* record for the ids in stored; objects[id] is that record (the object    *)
(* in MemorySessionBackend._sessions, or the contents of the session's     *)
(* file), and objects[h] is the SessionRecord that FileSystemSessionBackend *)
(* .get built for handler h.  With the memory backend a handler holds the  *)
(* stored object itself, which lives on when the backend drops its key.    *)
(***************************************************************************)
max_sessions == 2
ttl == 2
MaxClock == 4
MaxCreated == 3

SessionIds == <<"session-1", "session-2", "session-3", "session-4">>
Handlers == {"h1", "h2"}
HandlerFeatures == {"f1", "f2"}

\* the record create_session builds: nothing patched yet
SessionRecord(session_id, now) ==
    [exists |-> TRUE, session_id |-> session_id, last_accessed |-> now,
     feature_collection |-> [f \in HandlerFeatures |-> {}]]

\* the number of sessions created so far
Created == Cardinality({k \in 1..Len(SessionIds) : objects[SessionIds[k]].exists})

\* str(uuid4()): an id no session had before
NewSessionId == SessionIds[Created + 1]

\* backend.list_all() after prune_expired at the time now: the records that stay
Expired(ids, objs, now) == {id \in ids : now - objs[id].last_accessed >= ttl}

prune_expired_Strict(ids, objs, now) ==
    ids \ {id \in ids : now - objs[id].last_accessed > ttl}

prune_expired(ids, objs, now) == ids \ Expired(ids, objs, now)

\* the sessions _evict_if_needed may delete: none below the limit, else one of the
\* least recently accessed (which one of several is the backend's listing order)
Oldest(ids, objs) ==
    {id \in ids : \A other \in ids : objs[id].last_accessed <= objs[other].last_accessed}

_evict_if_needed(ids, objs) ==
    IF Cardinality(ids) < max_sessions THEN {ids}
    ELSE {ids \ {id} : id \in Oldest(ids, objs)}

InitManager ==
    /\ backend_name \in {"memory", "filesystem"}
    /\ stored = {}
    /\ objects = [id \in Range(SessionIds) \cup Handlers |-> NoRecord]
    /\ clock = 0
    /\ handlers = [h \in Handlers |-> IdleHandler]
    /\ call_args = NoCall
    /\ call_return = NotReturned
    /\ feature_collection = <<>>
    /\ validation = NoValidation
    /\ autofix = NoAutofix
    /\ rerun = NoAutofix
    /\ revalidation = NoValidation
    /\ previous = NoPrevious
    /\ pc = "manager"
    /\ session = NoSession
    /\ response = NoResponse
    /\ gen_input = NoSession
    /\ gen_output = NotGenerated

other_vars == <<pipeline_vars, endpoint_vars, generator_vars>>

\* time passes
Tick ==
    /\ pc = "manager"
    /\ clock < MaxClock
    /\ clock' = clock + 1
    /\ UNCHANGED <<backend_name, stored, objects, handlers, function_vars, other_vars>>

\* SessionManager.create_session, as import_files calls it
CreateSession ==
    /\ pc = "manager"
    /\ Created < MaxCreated
    /\ \E kept \in _evict_if_needed(prune_expired(stored, objects, clock), objects) :
          /\ stored' = kept \cup {NewSessionId}
          /\ objects' = [objects EXCEPT ![NewSessionId] = SessionRecord(NewSessionId, clock)]
          /\ call_args' = [call |-> "create_session"]
          /\ call_return' = [returned |-> TRUE, value |-> NewSessionId]
    /\ UNCHANGED <<backend_name, clock, handlers, other_vars>>

\* SessionManager.prune_expired, as the background sweep calls it
PruneExpired ==
    /\ pc = "manager"
    /\ stored' = prune_expired(stored, objects, clock)
    /\ call_args' = [call |-> "prune_expired"]
    /\ call_return' = [returned |-> TRUE,
                       value |-> Cardinality(Expired(stored, objects, clock))]
    /\ UNCHANGED <<backend_name, objects, clock, handlers, other_vars>>

\* a handler starts: _get_session_or_raise(session_id), which is get_session with
\* touch; an unknown session raises and ends the handler
GetSession(h) ==
    /\ pc = "manager"
    /\ handlers[h].pc = "idle"
    /\ \E id \in {SessionIds[k] : k \in 1..Created}, f \in HandlerFeatures :
          /\ call_args' = [call |-> "get_session", session_id |-> id, handler |-> h]
          /\ IF id \notin stored
             THEN /\ handlers' = [handlers EXCEPT ![h] = [pc |-> "raised", session_id |-> id]]
                  /\ call_return' = [returned |-> TRUE, value |-> None]
                  /\ UNCHANGED objects
             ELSE LET touched == [objects[id] EXCEPT !.last_accessed = clock]
                      held == IF backend_name = "memory" THEN id ELSE h
                  IN /\ objects' = [objects EXCEPT ![id] = touched, ![held] = touched]
                     /\ handlers' = [handlers EXCEPT ![h] =
                            [pc |-> "got", session_id |-> id, feature_id |-> f,
                             held |-> held]]
                     /\ call_return' = [returned |-> TRUE, value |-> id]
    /\ UNCHANGED <<backend_name, stored, clock, other_vars>>

\* patch_feature: updated = deepcopy(features[index]) with the payload's property merged
ReadFeature(h) ==
    /\ pc = "manager"
    /\ handlers[h].pc = "got"
    /\ handlers' = [handlers EXCEPT ![h] =
           [pc |-> "read", session_id |-> @.session_id, feature_id |-> @.feature_id,
            held |-> @.held,
            updated |-> objects[@.held].feature_collection[@.feature_id] \cup {h}]]
    /\ UNCHANGED <<backend_name, stored, objects, clock, function_vars, other_vars>>

\* patch_feature: features[index] = updated
WriteFeature(h) ==
    /\ pc = "manager"
    /\ handlers[h].pc = "read"
    /\ objects' = [objects EXCEPT ![handlers[h].held].feature_collection[handlers[h].feature_id]
                                      = handlers[h].updated]
    /\ handlers' = [handlers EXCEPT ![h] =
           [pc |-> "written", session_id |-> @.session_id, feature_id |-> @.feature_id,
            held |-> @.held]]
    /\ UNCHANGED <<backend_name, stored, clock, function_vars, other_vars>>

\* SessionManager.save_session(session), which ends the handler
SaveSession(h) ==
    /\ pc = "manager"
    /\ handlers[h].pc = "written"
    /\ LET saved == [objects[handlers[h].held] EXCEPT !.last_accessed = clock]
       IN objects' = [objects EXCEPT ![handlers[h].held] = saved,
                                     ![handlers[h].session_id] = saved]
    /\ stored' = stored \cup {handlers[h].session_id}
    /\ handlers' = [handlers EXCEPT ![h] =
           [pc |-> "saved", session_id |-> @.session_id, feature_id |-> @.feature_id]]
    /\ call_args' = [call |-> "save_session", session_id |-> handlers[h].session_id,
                     handler |-> h]
    /\ call_return' = [returned |-> TRUE, value |-> handlers[h].session_id]
    /\ UNCHANGED <<backend_name, clock, other_vars>>

NextManager ==
    \/ Tick
    \/ CreateSession
    \/ PruneExpired
    \/ \E h \in Handlers : GetSession(h)
    \/ \E h \in Handlers : ReadFeature(h)
    \/ \E h \in Handlers : WriteFeature(h)
    \/ \E h \in Handlers : SaveSession(h)

SpecManager == InitManager /\ [][NextManager]_vars


(***************************************************************************)
(* Classification and generation on a session: detect_all and patch_file   *)
(* re-detect the files and re-sync the feature types of the session's two  *)
(* collections, generate_draft and the generate endpoint fill the working  *)
(* collection, and the feature endpoints edit it.                          *)
(***************************************************************************)
lower(stem) ==
    [k \in 1..Len(stem) |->
        IF stem[k] \in Range(UpperCase) THEN LowerCase[IndexIn(UpperCase, stem[k])]
        ELSE stem[k]]

\* keyword in lowered
Contains(lowered, keyword) ==
    \E p \in 1..(Len(lowered) - Len(keyword) + 1) :
        SubSeq(lowered, p, p + Len(keyword) - 1) = keyword

\* The characters of the stems of the files of a session
StemCharacters(stem) ==
    CASE stem = "f1" -> Station_1_Space
      [] stem = "f2" -> Station_Minus2_Opening
      [] OTHER -> <<>>

FEATURE_TYPE_VALUES == {"unit", "opening", "fixture", "detail", "level", "building", "venue"}

KeywordSpace == <<"s", "p", "a", "c", "e">>
KeywordOpening == <<"o", "p", "e", "n", "i", "n", "g">>
KeywordStation == <<"s", "t", "a", "t", "i", "o", "n">>

\* detector.load_keyword_map: the configured keywords of each feature type, in the
\* order of the configuration file
load_keyword_map ==
    <<[feature_type |-> "unit", keywords |-> {KeywordSpace}],
      [feature_type |-> "opening", keywords |-> {KeywordOpening}]>>

\* detector.merge_learned_keywords: learned_keywords is the dict in insertion order
RECURSIVE merge_learned_keywords(_, _)
merge_learned_keywords(base_keywords, learned_keywords) ==
    IF learned_keywords = <<>> THEN base_keywords
    ELSE LET item == Head(learned_keywords)
             known == {k \in 1..Len(base_keywords) :
                          base_keywords[k].feature_type = item.feature_type}
             merged == IF item.feature_type \notin FEATURE_TYPE_VALUES THEN base_keywords
                       ELSE IF known = {}
                       THEN Append(base_keywords, [feature_type |-> item.feature_type,
                                                   keywords |-> {item.keyword}])
                       ELSE [k \in 1..Len(base_keywords) |->
                                IF k \in known
                                THEN [base_keywords[k] EXCEPT !.keywords = @ \cup {item.keyword}]
                                ELSE base_keywords[k]]
         IN merge_learned_keywords(merged, Tail(learned_keywords))

\* detector.detect_feature_type: the type of the longest keyword the stem contains, the
\* first such type in the order of the map; otherwise the type the geometry suggests
detect_feature_type(stem, geometry_type, keywords) ==
    LET lowered == lower(StemCharacters(stem))
        Longest(k) == {Len(keyword) : keyword \in {w \in keywords[k].keywords :
                                                     Contains(lowered, w)}}
        matching == {k \in 1..Len(keywords) : Longest(k) # {}}
        Best(k) == CHOOSE n \in Longest(k) : \A m \in Longest(k) : m <= n
    IN IF matching # {}
       THEN [detected_type |->
                keywords[CHOOSE k \in matching :
                            \A j \in matching :
                                Best(j) < Best(k) \/ (Best(j) = Best(k) /\ k <= j)].feature_type,
             confidence |-> "green"]
       ELSE IF geometry_type \in {"Polygon", "MultiPolygon"}
       THEN [detected_type |-> "unit", confidence |-> "yellow"]
       ELSE IF geometry_type \in {"LineString", "MultiLineString"}
       THEN [detected_type |-> "opening", confidence |-> "yellow"]
       ELSE [detected_type |-> None, confidence |-> "red"]

\* detector.detect_files
detect_files(files, keywords, preserve_manual_levels) ==
    [k \in 1..Len(files) |->
        [files[k] EXCEPT
            !.detected_type =
                detect_feature_type(files[k].stem, files[k].geometry_type, keywords).detected_type,
            !.confidence =
                detect_feature_type(files[k].stem, files[k].geometry_type, keywords).confidence,
            !.detected_level =
                IF ~preserve_manual_levels \/ @ = <<>>
                THEN detect_level_ordinal(StemCharacters(files[k].stem))
                ELSE @]]

\* stem_to_type of sync_feature_types: the type of the last file of the stem
stem_to_type(files, stem) ==
    LET file == file_map(files, stem)
    IN IF file.detected_type = None THEN "source" ELSE file.detected_type

\* detector.sync_feature_types: a copy of the collection in which every feature of a
\* known file has the type detected for the file
sync_feature_types(rows, files) ==
    [k \in 1..Len(rows) |->
        IF /\ "source_file" \in DOMAIN rows[k].properties
           /\ rows[k].properties.source_file # None
           /\ HasFile(files, rows[k].properties.source_file)
        THEN [rows[k] EXCEPT !.feature_type = stem_to_type(files, rows[k].properties.source_file)]
        ELSE rows[k]]

\* importer._extract_feature_rows: a row of a shapefile
ImportedRow(id, geometry, stem) ==
    Feature(id, "source", geometry,
            [source_file |-> stem] @@ [NoProperties EXCEPT !.status = "mapped"])

\* The files of an import before detection
UploadedFiles ==
    <<[geometry_type |-> "Polygon", confidence |-> "red"] @@ ImportedFile("f1", None, <<>>),
      [geometry_type |-> "LineString", confidence |-> "red"] @@ ImportedFile("f2", None, <<>>)>>

UploadedCollections ==
    {<<ImportedRow("uuid-1", "polyA", "f1"), ImportedRow("uuid-2", "polyB", "f1")>>,
     <<ImportedRow("uuid-1", "polyA", "f1"), ImportedRow("uuid-2", "polyA", "f1"),
       ImportedRow("uuid-3", "lineL", "f2")>>}

\* import_router.import_files and SessionManager.create_session: the files as detected,
\* and the collection with its types synced, copied into both collections
InitClassify ==
    /\ \E rows \in UploadedCollections :
          LET files == detect_files(UploadedFiles, load_keyword_map, TRUE)
          IN session = [exists |-> TRUE, session_id |-> "s1", files |-> files,
                        feature_collection |-> sync_feature_types(rows, files),
                        source_feature_collection |-> sync_feature_types(rows, files),
                        learned_keywords |-> <<>>,
                        levels_items |-> <<>>, buildings |-> <<>>, project |-> FALSE,
                        venue_address_id |-> None, generation_status |-> "not_started",
                        validated |-> FALSE, validation |-> NoValidation]
    /\ response = NoResponse
    /\ feature_collection = <<>>
    /\ validation = NoValidation
    /\ autofix = NoAutofix
    /\ rerun = NoAutofix
    /\ revalidation = NoValidation
    /\ previous = NoPrevious
    /\ pc = "classify"
    /\ gen_input = NoSession
    /\ gen_output = NotGenerated
    /\ call_args = NoCall
    /\ call_return = NotReturned
    /\ ManagerIdle

\* the re-sync of both collections, whatever the generation status
Resynced_Ungated(record) ==
    [record EXCEPT
        !.source_feature_collection = sync_feature_types(@, record.files),
        !.feature_collection = sync_feature_types(@, record.files)]

\* features_router lines 86-89 and 146-149: the source collection is re-synced, and the
\* working collection unless the session is generated
Resynced(record) ==
    [record EXCEPT
        !.source_feature_collection = sync_feature_types(@, record.files),
        !.feature_collection = IF record.generation_status # "generated"
                               THEN sync_feature_types(@, record.files)
                               ELSE @]

\* features_router.detect_all
DetectAll ==
    /\ pc = "classify"
    /\ session.exists
    /\ session' = Resynced([session EXCEPT
                               !.files = detect_files(@,
                                   merge_learned_keywords(load_keyword_map,
                                                          session.learned_keywords), TRUE)])
    /\ response' = Reply("detect_all", 200, "", FALSE)
    /\ UNCHANGED <<pipeline_vars, generator_vars, function_vars, manager_vars>>

\* The requests to the feature endpoints of a session under classification, and the
\* values of uuid4() for them
ClassifyPatchPayloads ==
    {[has_properties |-> TRUE, properties |-> [level_id |-> None],
      has_geometry |-> FALSE, geometry |-> None]}

ClassifyStreams == {<<"uuid-4", "uuid-5", "uuid-6", "uuid-7", "uuid-8", "uuid-9">>}

\* The requests to patch_file: a type set by hand, with or without a keyword to learn
FilePayloads ==
    {[detected_type |-> "fixture", apply_learning |-> FALSE, learning_keyword |-> <<>>],
     [detected_type |-> "fixture", apply_learning |-> TRUE,
      learning_keyword |-> KeywordStation]}

\* session.learned_keywords[keyword] = feature_type
Learned(learned_keywords, keyword, feature_type) ==
    IF \E k \in 1..Len(learned_keywords) : learned_keywords[k].keyword = keyword
    THEN [k \in 1..Len(learned_keywords) |->
             IF learned_keywords[k].keyword = keyword
             THEN [learned_keywords[k] EXCEPT !.feature_type = feature_type]
             ELSE learned_keywords[k]]
    ELSE Append(learned_keywords, [keyword |-> keyword, feature_type |-> feature_type])

\* features_router.patch_file, lines 100-135: the files and the learned keywords after
\* the request
PatchedFiles(record, file_index, payload) ==
    LET updated == [record.files[file_index] EXCEPT
                       !.detected_type = payload.detected_type,
                       !.confidence = IF payload.detected_type # None THEN "green" ELSE @]
        files == [record.files EXCEPT ![file_index] = updated]
        learned == Learned(record.learned_keywords, payload.learning_keyword,
                           payload.detected_type)
    IN IF payload.apply_learning
       THEN [record EXCEPT
                !.learned_keywords = learned,
                !.files = detect_files(files,
                              merge_learned_keywords(load_keyword_map, learned), TRUE)]
       ELSE [record EXCEPT !.files = files]

\* features_router.patch_file
PatchFile ==
    /\ pc = "classify"
    /\ session.exists
    /\ \E stem \in {"f1", "f3"}, payload \in FilePayloads :
          IF ~HasFile(session.files, stem)
          THEN /\ response' = Reply("patch_file", 404, "File stem not found", FALSE)
               /\ UNCHANGED session
          ELSE /\ session' = Resynced(PatchedFiles(session,
                                 CHOOSE k \in 1..Len(session.files) :
                                     /\ session.files[k].stem = stem
                                     /\ \A j \in 1..(k - 1) : session.files[j].stem # stem,
                                 payload))
               /\ response' = Reply("patch_file", 200, "", FALSE)
    /\ UNCHANGED <<pipeline_vars, generator_vars, function_vars, manager_vars>>

\* wizard.build_building_feature
build_building_feature(building, new_id) ==
    Feature(new_id, "building", None,
            [_phase3_generated |-> TRUE, _wizard_building_id |-> building.id]
                @@ [NoProperties EXCEPT !.name = building.name,
                                        !.category = building.category,
                                        !.address_id = building.address_feature_id,
                                        !.status = "mapped"])

\* generate_router.generate_draft, for a session without project: a building feature
\* per building of the wizard replaces the features of an earlier draft
GenerateDraft ==
    /\ pc = "classify"
    /\ session.exists
    /\ \E stream \in ClassifyStreams :
          LET seeded == seed_wizard_state(session)
              new_ids == FreshStream(stream, session.feature_collection)
              existing_features ==
                  Filter(session.feature_collection, LAMBDA feature :
                      ~("_phase3_generated" \in DOMAIN feature.properties
                        /\ feature.properties._phase3_generated))
              generated_features ==
                  [k \in 1..Len(seeded.buildings) |->
                      build_building_feature(seeded.buildings[k], new_ids[k])]
          IN session' = [seeded EXCEPT
                            !.feature_collection = existing_features \o generated_features,
                            !.generation_status = "draft_ready"]
    /\ response' = Reply("generate_draft", 200, "", FALSE)
    /\ UNCHANGED <<pipeline_vars, generator_vars, function_vars, manager_vars>>

\* generator.generate_feature_collection, line 94: the rows of the source collection
GeneratorRecord(record) ==
    [source_rows |-> [k \in 1..Len(record.source_feature_collection) |->
                         SourceRow(record.source_feature_collection[k].id,
                                   record.source_feature_collection[k].geometry,
                                   record.source_feature_collection[k].properties.source_file)]]
        @@ record

\* The generate endpoint: the working collection becomes the collection generated from
\* the source collection, and the session is generated
GenerateSession ==
    /\ pc = "classify"
    /\ session.exists
    /\ \E new_ids \in GeneratorUuids :
          LET seeded == seed_wizard_state(session)
          IN session' = [seeded EXCEPT
                            !.feature_collection =
                                generate_feature_collection(GeneratorRecord(seeded), new_ids),
                            !.generation_status = "generated"]
    /\ response' = Reply("generate", 200, "", FALSE)
    /\ UNCHANGED <<pipeline_vars, generator_vars, function_vars, manager_vars>>

\* Classification and generation, with edits of the working collection in between
NextClassify ==
    \/ DetectAll
    \/ PatchFile
    \/ GenerateDraft
    \/ GenerateSession
    \/ PatchFeature({"uuid-1"}, ClassifyPatchPayloads)
    \/ DeleteFeature({"uuid-2"})

SpecClassify == InitClassify /\ [][NextClassify]_vars

\* The requests to the working collection of an imported session, and classification
NextSource ==
    \/ DetectAll
    \/ PatchFile
    \/ PatchFeature({"uuid-1"}, PatchPayloads)
    \/ DeleteFeature({"uuid-2"})
    \/ PatchFeaturesBulk(BulkPayloads, ClassifyStreams)
    \/ ValidateSession
    \/ AutofixSession(ClassifyStreams)
    \/ ExportImdf

SpecSource == InitClassify /\ [][NextSource]_vars




(***************************************************************************)
(* Properties of validate_feature_collection and apply_autofix, stated on  *)
(* the pipeline.                                                           *)
(***************************************************************************)
\* the issues of a list with this check
IssuesOf(issues, check) == Filter(issues, LAMBDA issue : issue.check = check)

\* the positions of the units of a collection
UnitRows(rows) == {i \in 1..Len(rows) : _feature_type(rows[i]) = "unit"}

\* the string ids of a collection, one entry per row that has one
StringIds(rows) == FlatMap(Len(rows), LAMBDA i : IF rows[i].id = None THEN <<>> ELSE <<rows[i].id>>)

\* C10: a collection without a venue feature gets a missing_venue error and a collection
\* without a building feature gets a missing_building error, and in either case the
\* summary's error_count is at least 1.
C10_MissingRequiredTypes ==
    pc = "validated" =>
        /\ (\A i \in 1..Len(feature_collection) :
                feature_collection[i].feature_type # "venue") =>
              /\ IssuesOf(validation.errors, "missing_venue") # <<>>
              /\ validation.summary.error_count >= 1
        /\ (\A i \in 1..Len(feature_collection) :
                feature_collection[i].feature_type # "building") =>
              /\ IssuesOf(validation.errors, "missing_building") # <<>>
              /\ validation.summary.error_count >= 1

\* a validated collection that has a venue and units but no building
C10_Witness ==
    /\ pc = "validated"
    /\ \A i \in 1..Len(feature_collection) : feature_collection[i].feature_type # "building"
    /\ \E i \in 1..Len(feature_collection) : feature_collection[i].feature_type = "venue"
    /\ UnitRows(feature_collection) # {}
    /\ IssuesOf(validation.errors, "missing_building") # <<>>

\* two units, at rows i < j, on the same level with the same parseable, non-empty geometry
IdenticalUnits(rows, i, j) ==
    /\ i \in UnitRows(rows) /\ j \in UnitRows(rows) /\ i < j
    /\ rows[i].geometry # None /\ Parses(rows[i].geometry) /\ ~is_empty(rows[i].geometry)
    /\ rows[j].geometry # None
    /\ wkb_hex(rows[i].geometry) = wkb_hex(rows[j].geometry)
    /\ _props(rows[i]).level_id = _props(rows[j]).level_id
    /\ _props(rows[i]).level_id # None

\* the id of a row is a non-empty string that no other row carries
OwnId(rows, i) ==
    /\ rows[i].id \notin {None, ""}
    /\ \A k \in 1..Len(rows) : k # i => rows[k].id # rows[i].id

\* the duplicate_geometry_warning issues that name feature_id
DuplicateWarningsOn(report, feature_id) ==
    Filter(report.warnings, LAMBDA issue :
        issue.check = "duplicate_geometry_warning" /\ issue.feature_id = feature_id)

\* C5 as stated: of two units on the same level with identical geometry, validation warns
\* duplicate_geometry_warning on both: one warning names the first with the second as
\* related feature and one names the second with the first as related feature.
C5_BothFlagged ==
    pc = "validated" =>
        \A i, j \in 1..Len(feature_collection) :
            /\ IdenticalUnits(feature_collection, i, j)
            /\ OwnId(feature_collection, i) /\ OwnId(feature_collection, j)
            => /\ \E k \in 1..Len(validation.warnings) :
                     /\ validation.warnings[k].check = "duplicate_geometry_warning"
                     /\ validation.warnings[k].feature_id = feature_collection[i].id
                     /\ validation.warnings[k].related_feature_id = feature_collection[j].id
               /\ \E k \in 1..Len(validation.warnings) :
                     /\ validation.warnings[k].check = "duplicate_geometry_warning"
                     /\ validation.warnings[k].feature_id = feature_collection[j].id
                     /\ validation.warnings[k].related_feature_id = feature_collection[i].id

\* row h is a unit on the level of unit i and stands for the geometry of unit i: it
\* has that geometry itself, or it shares its id with a row that has it
StandsForGeometry(rows, h, i) ==
    /\ h \in UnitRows(rows)
    /\ _props(rows[h]).level_id = _props(rows[i]).level_id
    /\ rows[h].id \notin {None, ""}
    /\ \E g \in 1..Len(rows) :
          /\ rows[g].id = rows[h].id
          /\ rows[g].geometry # None /\ Parses(rows[g].geometry)
          /\ wkb_hex(rows[g].geometry) = wkb_hex(rows[i].geometry)

\* C5 amended: of two units on the same level with identical geometry, each under an id of
\* its own, only the later one is warned about on account of the pair: exactly one
\* duplicate_geometry_warning names the later unit, its related feature is a unit before
\* it that stands for that geometry (has it, or shares its id with a row that has it),
\* and the earlier unit is named by a warning only if such a unit comes before it too.
C5_LaterFlagged ==
    pc = "validated" =>
        \A i, j \in 1..Len(feature_collection) :
            /\ IdenticalUnits(feature_collection, i, j)
            /\ OwnId(feature_collection, i) /\ OwnId(feature_collection, j)
            => LET on_later == DuplicateWarningsOn(validation, feature_collection[j].id)
                   on_earlier == DuplicateWarningsOn(validation, feature_collection[i].id)
               IN /\ Len(on_later) = 1
                  /\ \E h \in 1..(j - 1) :
                        /\ StandsForGeometry(feature_collection, h, j)
                        /\ on_later[1].related_feature_id = feature_collection[h].id
                  /\ on_later[1].related_feature_id # feature_collection[j].id
                  /\ on_earlier # <<>> =>
                        \E h \in 1..(i - 1) : StandsForGeometry(feature_collection, h, i)

\* two identical units under ids of their own, the later warned about and the earlier not
C5_Witness ==
    /\ pc = "validated"
    /\ \E i, j \in 1..Len(feature_collection) :
          /\ IdenticalUnits(feature_collection, i, j)
          /\ OwnId(feature_collection, i) /\ OwnId(feature_collection, j)
          /\ Len(DuplicateWarningsOn(validation, feature_collection[j].id)) = 1
          /\ DuplicateWarningsOn(validation, feature_collection[i].id) = <<>>

\* the prompts that name this check, feature and related feature
PromptsFor(prompts, check, feature_id, related_feature_id) ==
    Filter(prompts, LAMBDA prompt :
        /\ prompt.check = check
        /\ prompt.feature_id = feature_id
        /\ prompt.related_feature_id = related_feature_id)

\* the issue names a feature, and for a duplicate a related feature, by a non-empty id
Prompted(issue) ==
    \/ issue.check = "empty_geometry" /\ issue.feature_id \notin {None, ""}
    \/ /\ issue.check = "duplicate_geometry_warning"
       /\ issue.feature_id \notin {None, ""}
       /\ issue.related_feature_id \notin {None, ""}

\* C4: with apply_prompted = false apply_autofix removes no feature, and it returns
\* exactly one prompt per duplicate pair that validation reported, with the smaller id as
\* feature_id and the larger as related_feature_id, and exactly one per feature that
\* validation reported as empty geometry.
C4_PromptsWithoutDeletion ==
    (pc = "fixed" /\ ~autofix.apply_prompted) =>
        LET issues == validation.errors \o validation.warnings
        IN /\ Len(autofix.updated) = Len(feature_collection)
           /\ \A i \in 1..Len(feature_collection) :
                 /\ autofix.updated[i].feature_type = feature_collection[i].feature_type
                 /\ autofix.updated[i].properties = feature_collection[i].properties
           /\ \A k \in 1..Len(autofix.fixes_applied) :
                 autofix.fixes_applied[k].action # "delete_feature"
           /\ \A k \in 1..Len(issues) :
                 /\ (issues[k].check = "duplicate_geometry_warning" /\ Prompted(issues[k])) =>
                       LET a == issues[k].feature_id
                           b == issues[k].related_feature_id
                       IN Len(PromptsFor(autofix.prompts, "duplicate_geometry_warning",
                                         IF StrLess(b, a) THEN b ELSE a,
                                         IF StrLess(b, a) THEN a ELSE b)) = 1
                 /\ (issues[k].check = "empty_geometry" /\ Prompted(issues[k])) =>
                       Len(PromptsFor(autofix.prompts, "empty_geometry",
                                      issues[k].feature_id, None)) = 1
           /\ \A n \in 1..Len(autofix.prompts) :
                 \E k \in 1..Len(issues) :
                    /\ Prompted(issues[k])
                    /\ issues[k].check = autofix.prompts[n].check
                    /\ \/ /\ issues[k].feature_id = autofix.prompts[n].feature_id
                          /\ issues[k].related_feature_id = autofix.prompts[n].related_feature_id
                       \/ /\ issues[k].feature_id = autofix.prompts[n].related_feature_id
                          /\ issues[k].related_feature_id = autofix.prompts[n].feature_id

\* a run without apply_prompted on a collection with two duplicate pairs
C4_Witness ==
    /\ pc = "fixed" /\ ~autofix.apply_prompted
    /\ Len(autofix.prompts) = 2
    /\ \A n \in 1..2 :
          /\ autofix.prompts[n].check = "duplicate_geometry_warning"
          /\ StrLess(autofix.prompts[n].feature_id, autofix.prompts[n].related_feature_id)
    /\ Len(autofix.updated) = Len(feature_collection)

\* C8: apply_autofix keeps the first occurrence of each well-formed identifier, replaces
\* every malformed identifier and every later repeat of an identifier, and in the
\* collection it returns all string identifiers are well-formed and pairwise distinct.
C8_IdentifiersRegenerated ==
    pc = "fixed" =>
        /\ \A i \in 1..Len(autofix.updated) :
              autofix.updated[i].id # None =>
                 /\ _looks_like_uuid(autofix.updated[i].id)
                 /\ \A j \in 1..Len(autofix.updated) :
                       j # i => autofix.updated[j].id # autofix.updated[i].id
        /\ ~autofix.apply_prompted =>
              \A i \in 1..Len(feature_collection) :
                 LET old == feature_collection[i].id
                     new == autofix.updated[i].id
                 IN IF old = None THEN new = None
                    ELSE IF /\ _looks_like_uuid(old)
                            /\ \A j \in 1..(i - 1) : feature_collection[j].id # old
                         THEN new = old
                         ELSE new # old

\* a run on a collection with a repeated well-formed id and a malformed id
C8_Witness ==
    /\ pc = "fixed" /\ ~autofix.apply_prompted
    /\ \E i, j, k \in 1..Len(feature_collection) :
          /\ i < j
          /\ feature_collection[i].id = feature_collection[j].id
          /\ _looks_like_uuid(feature_collection[i].id)
          /\ autofix.updated[i].id = feature_collection[i].id
          /\ autofix.updated[j].id # feature_collection[j].id
          /\ feature_collection[k].id # None
          /\ ~_looks_like_uuid(feature_collection[k].id)

\* validation reports one duplicate pair, of the ids a < b, and no empty geometry
OneDuplicatePair(report, a, b) ==
    /\ StrLess(a, b)
    /\ IssuesOf(report.warnings, "duplicate_geometry_warning") # <<>>
    /\ \A k \in 1..Len(report.warnings) :
          report.warnings[k].check = "duplicate_geometry_warning" =>
             {report.warnings[k].feature_id, report.warnings[k].related_feature_id} = {a, b}
    /\ IssuesOf(report.errors, "empty_geometry") = <<>>

\* C3: of N features in which validation reports one duplicate pair of units,
\* apply_autofix with apply_prompted = true returns N - 1: no feature has the larger id
\* of the pair and the feature with the smaller id is kept.
C3_LargerIdDeleted ==
    (pc = "fixed" /\ autofix.apply_prompted) =>
        \A a, b \in Range(StringIds(feature_collection)) :
            OneDuplicatePair(validation, a, b) =>
               /\ Len(autofix.updated) = Len(feature_collection) - 1
               /\ \A k \in 1..Len(autofix.updated) : autofix.updated[k].id # b
               /\ _looks_like_uuid(a) => \E k \in 1..Len(autofix.updated) : autofix.updated[k].id = a

\* C6: a unit whose ring self-intersects is repaired by apply_autofix: revalidation of
\* the returned collection reports neither invalid_geometry nor empty_geometry for it
\* (apply_prompted = false, so that the unit is the one at the same position).
C6_BowtieRepaired ==
    (pc = "revalidated" /\ ~autofix.apply_prompted) =>
        \A i \in UnitRows(feature_collection) :
            (/\ feature_collection[i].geometry # None
             /\ Parses(feature_collection[i].geometry)
             /\ ~is_valid(feature_collection[i].geometry)
             /\ feature_collection[i].id # None) =>
               \A k \in 1..Len(revalidation.errors) :
                  revalidation.errors[k].check \in {"invalid_geometry", "empty_geometry"} =>
                     revalidation.errors[k].feature_id # autofix.updated[i].id

\* C7: after a round of validation and apply_autofix with apply_prompted = true, a
\* second such round on the returned collection applies no fix and changes no feature.
C7_Idempotent ==
    (pc = "fixed" /\ previous.ran /\ previous.apply_prompted /\ autofix.apply_prompted) =>
        /\ autofix.fixes_applied = <<>>
        /\ autofix.updated = feature_collection

C1_ExportBlockedOnErrors ==
    response.endpoint = "export_imdf" =>
        LET report == validate_feature_collection(session.feature_collection)
        IN /\ response.archive => report.summary.error_count = 0
           /\ report.summary.error_count > 0 =>
                 /\ ~response.archive
                 /\ response.status_code = 400
                 /\ response.detail = "Export blocked: unresolved validation errors remain."

\* an export refused for a collection in which a unit has no level_id
C1_Witness ==
    /\ response.endpoint = "export_imdf"
    /\ ~response.archive
    /\ response.status_code = 400
    /\ \E i \in UnitRows(session.feature_collection) :
          /\ session.feature_collection[i].properties.level_id = None
          /\ session.feature_collection[i].properties.status = "error"

(***************************************************************************)
(* Properties of generate_feature_collection, stated on the generator      *)
(* specification.                                                          *)
(***************************************************************************)
GeneratedOf(feature_types) ==
    {k \in 1..Len(gen_output.features) : gen_output.features[k].feature_type \in feature_types}

\* the file of a source row, if a level-linked file of the session has its stem
HasLevelFile(row) ==
    /\ row.source_file # None
    /\ HasFile(gen_input.files, row.source_file)
    /\ file_map(gen_input.files, row.source_file).detected_type \in LEVEL_FILE_TYPES

\* the generated features that came from a source row: of its file and geometry, and
\* under its id if it has one
EmittedFrom(row) ==
    {k \in GeneratedOf(LEVEL_FILE_TYPES) :
        /\ gen_output.features[k].properties.source_file = row.source_file
        /\ gen_output.features[k].geometry = row.geometry
        /\ row.id \in {None, "", gen_output.features[k].id}}

\* the file of the row has no ordinal, or its ordinal produced no level
WithoutLevel(row) ==
    \/ file_map(gen_input.files, row.source_file).detected_level = <<>>
    \/ \A k \in GeneratedOf({"level"}) :
          gen_output.features[k].properties.ordinal
              # file_map(gen_input.files, row.source_file).detected_level

\* C2: in every output of generate_feature_collection, each unit, opening, fixture and
\* detail feature carries the id of a level feature of the same output as its level_id,
\* and a source row whose file has no ordinal, or whose ordinal produced no level, is
\* not in the output
C2_LevelIdsResolve ==
    gen_output.generated =>
        /\ \A k \in GeneratedOf(LEVEL_FILE_TYPES) :
              \E l \in GeneratedOf({"level"}) :
                  gen_output.features[k].properties.level_id = gen_output.features[l].id
        /\ \A r \in 1..Len(gen_input.source_rows) :
              (HasLevelFile(gen_input.source_rows[r]) /\ WithoutLevel(gen_input.source_rows[r]))
                  => EmittedFrom(gen_input.source_rows[r]) = {}

\* an output with a feature on a level and a source row with a shape that is left out
\* because the ordinal of its file produced no level
C2_Witness ==
    /\ gen_output.generated
    /\ GeneratedOf(LEVEL_FILE_TYPES) # {}
    /\ \E r \in 1..Len(gen_input.source_rows) :
          /\ HasLevelFile(gen_input.source_rows[r])
          /\ HasShape(gen_input.source_rows[r])
          /\ file_map(gen_input.files, gen_input.source_rows[r].source_file).detected_level
               # <<>>
          /\ WithoutLevel(gen_input.source_rows[r])
          /\ EmittedFrom(gen_input.source_rows[r]) = {}


(***************************************************************************)
(* Properties of the validation result, stated on the pipeline.            *)
(***************************************************************************)
\* C12: a check listed in passed has no failing instance in the same result: with a
\* duplicate or malformed id unique_uuids is not passed, with an invalid geometry
\* valid_geometry is not passed, with a display point outside its geometry
\* display_points_valid is not passed, without a venue venue_exists is not passed and
\* without a building building_exists is not passed.
C12_PassedHaveNoFailures ==
    pc = "validated" =>
        LET issues == validation.errors \o validation.warnings
            Fails(checks) == \E k \in 1..Len(issues) : issues[k].check \in checks
        IN /\ Fails({"duplicate_uuids", "id_not_uuid"}) => "unique_uuids" \notin validation.passed
           /\ Fails({"invalid_geometry"}) => "valid_geometry" \notin validation.passed
           /\ Fails({"display_point_within_geometry"}) =>
                  "display_points_valid" \notin validation.passed
           /\ Fails({"missing_venue"}) => "venue_exists" \notin validation.passed
           /\ Fails({"missing_building"}) => "building_exists" \notin validation.passed


(***************************************************************************)
(* Properties of annotate_feature_collection_with_validation, stated on    *)
(* the session endpoints that store the annotated collection.              *)
(***************************************************************************)
\* the last request stored a validation and the collection annotated with it
Annotated ==
    response.endpoint \in {"validate_session", "autofix_session", "export_imdf"}

\* the issues of the stored validation that name the feature
OwnIssues(row) ==
    Filter(session.validation.errors \o session.validation.warnings,
           LAMBDA issue : row.id \notin {None, ""} /\ issue.feature_id = row.id)

HasSeverity(issues, severity) == \E k \in 1..Len(issues) : issues[k].severity = severity

\* the status of a feature by the priority error, warning, unspecified, mapped
StatusByPriority(row, unspecified) ==
    IF HasSeverity(OwnIssues(row), "error") THEN "error"
    ELSE IF HasSeverity(OwnIssues(row), "warning") THEN "warning"
    ELSE IF unspecified THEN "unspecified"
    ELSE "mapped"

\* the features differ in properties.status and properties.issues at most
SameButAnnotation(before, after) ==
    after = [before EXCEPT !.properties.status = after.properties.status,
                           !.properties.issues = after.properties.issues]

\* C13 as stated: every annotated feature has the status error, else warning, else
\* unspecified if its category is the literal "unspecified", else mapped, and its issues
\* are exactly the issues that name its id.
C13_LiteralUnspecified ==
    Annotated =>
        \A i \in 1..Len(session.feature_collection) :
            LET row == session.feature_collection[i]
            IN /\ row.properties.issues = OwnIssues(row)
               /\ row.properties.status =
                      StatusByPriority(row, row.properties.category = "unspecified")

\* C13: every annotated feature has the status error if an issue that names its id is an
\* error, else warning if one is a warning, else unspecified if its category, trimmed and
\* lower-cased, is "unspecified", else mapped; its issues are exactly the issues that
\* name its id; and annotating changes nothing but status and issues of the features
\* (validate_session stores the annotated copy of the collection it validated).
C13_StatusByPriority ==
    /\ [](Annotated =>
            \A i \in 1..Len(session.feature_collection) :
                LET row == session.feature_collection[i]
                IN /\ row.properties.issues = OwnIssues(row)
                   /\ row.properties.status =
                          StatusByPriority(row,
                              StripLower(row.properties.category) = "unspecified"))
    /\ [][response'.endpoint = "validate_session" =>
            /\ Len(session'.feature_collection) = Len(session.feature_collection)
            /\ \A i \in 1..Len(session.feature_collection) :
                   SameButAnnotation(session.feature_collection[i],
                                     session'.feature_collection[i])]_vars

\* an annotated collection with all four statuses: a feature with an error and a warning
\* (status error), one with warnings only, an unspecified one and a mapped one
C13_Witness ==
    /\ Annotated
    /\ \E i \in 1..Len(session.feature_collection) :
          LET row == session.feature_collection[i]
          IN /\ HasSeverity(OwnIssues(row), "error")
             /\ HasSeverity(OwnIssues(row), "warning")
             /\ row.properties.status = "error"
    /\ \A status \in {"warning", "unspecified", "mapped"} :
          \E i \in 1..Len(session.feature_collection) :
              session.feature_collection[i].properties.status = status


\* the integer ordinals of the level features of a collection
OrdinalsPresent(rows) ==
    {rows[i].properties.ordinal[1] :
        i \in {k \in 1..Len(rows) :
                  rows[k].feature_type = "level" /\ rows[k].properties.ordinal # <<>>}}

\* the integers strictly between the smallest and the largest ordinal that no level has
OrdinalsAbsent(rows) ==
    LET present == OrdinalsPresent(rows)
    IN {n \in -10..10 : /\ n \notin present
                        /\ \E low \in present : low < n
                        /\ \E high \in present : n < high}

\* C14: validation emits a level_ordinal_gap warning if and only if an integer strictly
\* between the smallest and the largest level ordinal is absent, it emits one such
\* warning, and the warning names exactly the absent integers, in ascending order.
C14_OrdinalGapNamesAbsent ==
    pc = "validated" =>
        LET gaps == IssuesOf(validation.warnings, "level_ordinal_gap")
            absent == OrdinalsAbsent(feature_collection)
        IN /\ (gaps # <<>>) <=> (absent # {})
           /\ Len(gaps) <= 1
           /\ gaps # <<>> => gaps[1].message = SortedInts(absent)
           /\ IssuesOf(validation.errors, "level_ordinal_gap") = <<>>

\* a validated venue whose levels skip two ordinals in a row, and one with ordinals
\* 0 and 2 whose warning names 1
C14_Witness ==
    /\ pc = "validated"
    /\ \/ /\ OrdinalsPresent(feature_collection) = {0, 2}
          /\ IssuesOf(validation.warnings, "level_ordinal_gap")[1].message = <<1>>
       \/ /\ \E n \in -2..1 : {n, n + 1} \subseteq OrdinalsAbsent(feature_collection)
          /\ IssuesOf(validation.warnings, "level_ordinal_gap") # <<>>


(***************************************************************************)
(* Properties of generate_feature_collection, stated on the generator.     *)
(***************************************************************************)
\* C15: every generated level and every generated footprint has a non-empty building_ids
\* list, and every id in it is the id of a building feature of the same output.
C15_BuildingIdsResolve ==
    gen_output.generated =>
        \A k \in GeneratedOf({"level", "footprint"}) :
            LET ids == gen_output.features[k].properties.building_ids
            IN /\ ids # <<>>
               /\ \A n \in 1..Len(ids) :
                      \E b \in GeneratedOf({"building"}) : gen_output.features[b].id = ids[n]

\* an output with a footprint and with a level whose files belong to no configured
\* building and which names the first building
C15_Witness ==
    /\ gen_output.generated
    /\ GeneratedOf({"footprint"}) # {}
    /\ gen_input.buildings # <<>>
    /\ \E k \in GeneratedOf({"level"}) :
          /\ \A b \in 1..Len(gen_input.buildings) :
                 gen_input.buildings[b].file_stems
                     \cap gen_output.features[k].properties.source_files = {}
          /\ gen_output.features[k].properties.building_ids =
                 <<_stable_id(gen_input.session_id,
                              "building:" \o gen_input.buildings[1].id)>>


\* the step is a second call of generate_feature_collection on the session state that
\* the present output was generated from
GeneratedAgain ==
    /\ gen_output.generated
    /\ gen_output'.generated
    /\ gen_input' = gen_input

PatternShortName(ordinal) ==
    IF ordinal = 0 THEN "GF"
    ELSE IF ordinal > 0 THEN ToString(ordinal) \o "F"
    ELSE "B" \o ToString(0 - ordinal)

\* the user assigned a short name to a level item of the ordinal
ShortNameAssigned(ordinal) ==
    \E k \in 1..Len(gen_input.levels_items) :
        /\ gen_input.levels_items[k].ordinal = <<ordinal>>
        /\ gen_input.levels_items[k].short_name \notin {None, "", PatternShortName(ordinal)}

\* C17: a generated level to which the user assigned no short name has the
\* pattern-derived short name of its ordinal: GF at 0, <n>F at n > 0, B<n> at -n < 0.
C17_DefaultShortName ==
    gen_output.generated =>
        \A k \in GeneratedOf({"level"}) :
            LET level == gen_output.features[k].properties
            IN ~ShortNameAssigned(level.ordinal[1]) =>
                   level.short_name_text = PatternShortName(level.ordinal[1])


(***************************************************************************)
(* Properties of detect_level_ordinal, stated on the detector.  A token is *)
(* a maximal run of letters and digits of the upper-cased stem.            *)
(***************************************************************************)
\* the tokens of a stem, each as <<first position, last position>>
Tokens(s) ==
    {t \in (1..Len(s)) \X (1..Len(s)) :
        /\ t[1] <= t[2]
        /\ \A k \in t[1]..t[2] : IsUpperAlnum(s[k])
        /\ t[1] > 1 => ~IsUpperAlnum(s[t[1] - 1])
        /\ t[2] < Len(s) => ~IsUpperAlnum(s[t[2] + 1])}

AllDigits(s, p, q) == p <= q /\ \A k \in p..q : IsDigit(s[k])

\* the number that the digits at positions p..q write
RECURSIVE Power10(_)
Power10(n) == IF n = 0 THEN 1 ELSE 10 * Power10(n - 1)

RECURSIVE NumberAt(_, _, _)
NumberAt(s, p, q) ==
    IF p > q THEN 0
    ELSE (IndexIn(DigitChars, s[p]) - 1) * Power10(q - p) + NumberAt(s, p + 1, q)

\* B<n>
BasementTokens(s) == {t \in Tokens(s) : s[t[1]] = "B" /\ AllDigits(s, t[1] + 1, t[2])}

\* -<n>: a number with a minus sign in front that starts the stem or follows a separator
NegativeTokens(s) ==
    {t \in Tokens(s) : /\ AllDigits(s, t[1], t[2])
                       /\ t[1] > 1
                       /\ s[t[1] - 1] = "-"
                       /\ t[1] > 2 => ~IsUpperAlnum(s[t[1] - 2])}

\* a ground-floor marker or a bare 0
GroundTokens(s) ==
    {t \in Tokens(s) : SubSeq(s, t[1], t[2]) \in {<<"G">>, <<"G", "F">>, <<"G", "H">>, <<"0">>}}

\* <n>F
SuffixedTokens(s) == {t \in Tokens(s) : s[t[2]] = "F" /\ AllDigits(s, t[1], t[2] - 1)}

\* <n>
BareTokens(s) == {t \in Tokens(s) : AllDigits(s, t[1], t[2])}

FirstToken(tokens) == CHOOSE t \in tokens : \A u \in tokens : t[1] <= u[1]

\* the ordinal by the precedence basement, negative, ground or 0, floor number
OrdinalByPrecedence(s) ==
    IF BasementTokens(s) # {}
    THEN <<0 - NumberAt(s, FirstToken(BasementTokens(s))[1] + 1,
                        FirstToken(BasementTokens(s))[2])>>
    ELSE IF NegativeTokens(s) # {}
    THEN <<0 - NumberAt(s, FirstToken(NegativeTokens(s))[1],
                        FirstToken(NegativeTokens(s))[2])>>
    ELSE IF GroundTokens(s) # {} THEN <<0>>
    ELSE IF SuffixedTokens(s) \cup BareTokens(s) # {}
    THEN LET t == FirstToken(SuffixedTokens(s) \cup BareTokens(s))
         IN <<NumberAt(s, t[1], IF s[t[2]] = "F" THEN t[2] - 1 ELSE t[2]) - 1>>
    ELSE <<>>

C19_BareNumberIsOrdinal ==
    call_return.returned =>
        LET s == upper(call_args)
        IN (/\ BasementTokens(s) \cup NegativeTokens(s) \cup GroundTokens(s)
                  \cup SuffixedTokens(s) = {}
            /\ Cardinality(BareTokens(s)) = 1
            /\ NumberAt(s, FirstToken(BareTokens(s))[1], FirstToken(BareTokens(s))[2]) > 0)
           => call_return.value =
                  <<NumberAt(s, FirstToken(BareTokens(s))[1], FirstToken(BareTokens(s))[2])>>


(***************************************************************************)
(* Properties of the normaliser, stated on its specification.              *)
(***************************************************************************)
\* the ring is closed: its first point is its last
Closed(coords) == coords # <<>> /\ coords[1] = coords[Len(coords)]

\* C20: every polygon that _clean_geometry returns has each ring closed, no exterior
\* ring wound clockwise and no interior ring wound counter-clockwise, rounding done.
\* (A ring that rounding has left without area has no winding and is let pass.)
C20_RingsClosedAndWound ==
    call_return.returned =>
        \A k \in 1..Len(call_return.value) :
            LET polygon == call_return.value[k]
            IN polygon.type = "Polygon" =>
                   /\ Closed(polygon.exterior)
                   /\ signed_area(polygon.exterior) >= 0
                   /\ \A h \in 1..Len(polygon.interiors) :
                          /\ Closed(polygon.interiors[h])
                          /\ signed_area(polygon.interiors[h]) <= 0


\* the points of a ring
PointsOf(coords) == {coords[k] : k \in 1..Len(coords)}

\* the parts of a multi-part polygon that are not empty
NonEmptyParts(geom) == {k \in 1..Len(geom.geoms) : geom.geoms[k].exterior # <<>>}

IdleTime(id) == clock - objects[id].last_accessed

\* a create_session call on a full store removes a session, and every session it
\* removes was accessed no later than every session it keeps
EvictsOldest ==
    (CreateSession /\ Cardinality(stored) = max_sessions) =>
        /\ stored \ stored' # {}
        /\ \A gone \in stored \ stored' : \A kept \in stored \cap stored' :
               objects[gone].last_accessed <= objects[kept].last_accessed

\* C22: after any sequence of create_session, get_session, save_session and
\* prune_expired calls the store holds at most max_sessions sessions, and a
\* create_session call on a full store evicts the least recently accessed session.
C22_AtMostMaxSessions ==
    /\ [](Cardinality(stored) <= max_sessions)
    /\ [][EvictsOldest]_vars

\* C23: prune_expired deletes exactly the stored sessions idle for at least the TTL
\* and returns their number; a session it deleted is not stored afterwards, and
\* get_session of a session that is not stored returns None; a session accessed less
\* than one TTL ago stays.
C23_PruneExactlyExpired ==
    /\ [][PruneExpired =>
            /\ stored \ stored' = {id \in stored : IdleTime(id) >= ttl}
            /\ stored' \subseteq stored
            /\ call_return'.value = Cardinality({id \in stored : IdleTime(id) >= ttl})
            /\ \A id \in stored : IdleTime(id) < ttl => id \in stored'
            /\ objects' = objects]_vars
    /\ [][\A h \in Handlers :
            (GetSession(h) /\ call_args'.session_id \notin stored) =>
                /\ call_return'.value = None
                /\ handlers'[h].pc = "raised"]_vars

\* a prune_expired call has deleted a session and kept another
C23_Witness ==
    /\ call_args = [call |-> "prune_expired"]
    /\ call_return.value >= 1
    /\ stored # {}

\* the handler is between its get_session and its save_session
InFlight(h) == handlers[h].pc \in {"got", "read", "written"}

\* C24: when two handlers have each loaded the same session with get_session,
\* patched it and stored it with save_session, the stored session holds both
\* patches.
C24_NoLostUpdate ==
    (/\ \A h \in Handlers : handlers[h].pc = "saved"
     /\ \E id \in stored : \A h \in Handlers : handlers[h].session_id = id)
    => \A h \in Handlers :
           h \in objects[handlers[h].session_id].feature_collection[handlers[h].feature_id]

\* C25: no step removes a session from the store while a handler is between its
\* get_session and its save_session for it, and no save_session brings back a
\* session that the store no longer holds.
C25_InFlightSessionKept ==
    /\ [][\A h \in Handlers :
            (InFlight(h) /\ handlers[h].session_id \in stored)
                => handlers[h].session_id \in stored']_vars
    /\ [][\A h \in Handlers :
            (SaveSession(h) /\ handlers[h].session_id \notin stored)
                => handlers[h].session_id \notin stored']_vars


(***************************************************************************)
(* Properties of the feature endpoints, stated on the session.             *)
(***************************************************************************)
\* the step is a merge_units request that succeeded
MergedUnits ==
    /\ response'.endpoint = "patch_features_bulk"
    /\ response'.status_code = 200
    /\ response'.merged_feature_id # None

\* C29: a merge_units request removes only unit features that have a geometry, so a
\* feature of another type and a unit without geometry stay, it adds the one merged
\* unit, and deleted_count is the number of features removed.
C29_MergeRemovesMergedUnitsOnly ==
    [][MergedUnits =>
          LET before == session.feature_collection
              after == session'.feature_collection
          IN /\ \A i \in 1..Len(before) :
                    (before[i].feature_type # "unit" \/ before[i].geometry = None)
                        => \E j \in 1..Len(after) : after[j] = before[i]
             /\ \E j \in 1..Len(after) :
                    /\ after[j].id = response'.merged_feature_id
                    /\ after[j].feature_type = "unit"
             /\ response'.deleted_count = Len(before) + 1 - Len(after)]_vars


\* The features that have a duplicate or an empty geometry in a collection as it is
DeletableNow(rows) ==
    LET report == validate_feature_collection(rows)
        issues == report.errors \o report.warnings
    IN UNION {{pair[1], pair[2]} : pair \in duplicate_pairs(issues)} \cup empty_ids(issues)

\* the features an autofix request deleted, as its response reports them
PromptedDeletes(reply) ==
    {reply.fixes_applied[k].feature_id :
        k \in {n \in 1..Len(reply.fixes_applied) :
                 reply.fixes_applied[n].check = "prompted_delete"}}

\* C28: an autofix request deletes a feature only if the feature has a duplicate or an
\* empty geometry in the working collection as it is when the request arrives, also
\* when the collection was edited after the last validation.
C28_DeletesOnCurrentIssuesOnly ==
    [][response'.endpoint = "autofix_session"
          => PromptedDeletes(response') \subseteq DeletableNow(session.feature_collection)]_vars


(***************************************************************************)
(* Referential integrity across apply_autofix.                             *)
(***************************************************************************)
\* row i of a collection refers to row j: by level_id to a level, by an entry of
\* building_ids to a building, or by address_id to an address
Refers(rows, i, j) ==
    /\ rows[j].id # None
    /\ \/ /\ rows[i].feature_type \in {"unit", "opening", "fixture", "detail"}
          /\ rows[j].feature_type = "level"
          /\ rows[i].properties.level_id = rows[j].id
       \/ /\ rows[i].feature_type \in {"level", "footprint"}
          /\ rows[j].feature_type = "building"
          /\ \E k \in 1..Len(rows[i].properties.building_ids) :
                rows[i].properties.building_ids[k] = rows[j].id
       \/ /\ rows[i].feature_type \in {"venue", "building"}
          /\ rows[j].feature_type = "address"
          /\ rows[i].properties.address_id = rows[j].id

\* the k-th element, in increasing order, of a set of indices
Nth(S, k) == CHOOSE i \in S : Cardinality({j \in S : j <= i}) = k

\* The sets of rows of the input that the rows of the output can stem from: autofix
\* deletes rows and keeps the order and the type of the others
Survivors(rows, updated) ==
    {S \in SUBSET (1..Len(rows)) :
        /\ Cardinality(S) = Len(updated)
        /\ \A k \in 1..Len(updated) : updated[k].feature_type = rows[Nth(S, k)].feature_type}

\* C27: every reference by level_id, building_ids or address_id that resolved to a
\* feature before apply_autofix resolves to that feature afterwards, if both features
\* are kept, also when the referenced feature's id was regenerated.
C27_ReferencesPreserved ==
    pc = "fixed" =>
        \E S \in Survivors(feature_collection, autofix.updated) :
            \A a, b \in 1..Len(autofix.updated) :
                Refers(feature_collection, Nth(S, a), Nth(S, b))
                    => Refers(autofix.updated, a, b)


(***************************************************************************)
(* Properties of classification, stated on the session.                    *)
(***************************************************************************)
\* every feature of a known file has the type detected for the file
TypesOfFiles(rows, files) ==
    \A k \in 1..Len(rows) :
        \A f \in 1..Len(files) :
            ("source_file" \in DOMAIN rows[k].properties
             /\ rows[k].properties.source_file = files[f].stem)
                => rows[k].feature_type = IF files[f].detected_type = None THEN "source"
                                          ELSE files[f].detected_type

\* the step is a detect_all or patch_file request that succeeded
Reclassified ==
    /\ response'.endpoint \in {"detect_all", "patch_file"}
    /\ response'.status_code = 200

\* C26: detect_all and patch_file give the features of the source collection the types
\* of their files; they leave the working collection as it is while generation_status
\* is "generated" and give its features the types of their files in every other status.
C26_GeneratedGatesResync ==
    [][Reclassified =>
          /\ TypesOfFiles(session'.source_feature_collection, session'.files)
          /\ session.generation_status = "generated"
                => session'.feature_collection = session.feature_collection
          /\ session.generation_status # "generated"
                => TypesOfFiles(session'.feature_collection, session'.files)]_vars

\* a generated session whose file was reclassified: a feature of the file has the new
\* type in the source collection and its old type in the working collection
C26_Witness ==
    /\ session.exists
    /\ pc = "classify"
    /\ session.generation_status = "generated"
    /\ response.endpoint = "patch_file"
    /\ response.status_code = 200
    /\ \E i \in 1..Len(session.feature_collection),
          j \in 1..Len(session.source_feature_collection) :
          /\ "source_file" \in DOMAIN session.feature_collection[i].properties
          /\ session.feature_collection[i].properties.source_file
                = session.source_feature_collection[j].properties.source_file
          /\ session.feature_collection[i].feature_type = "unit"
          /\ session.source_feature_collection[j].feature_type = "fixture"


\* two collections that differ at most in the feature types of their features
SameButTypes(before, after) ==
    /\ Len(after) = Len(before)
    /\ \A k \in 1..Len(before) :
          [after[k] EXCEPT !.feature_type = before[k].feature_type] = before[k]

\* C30: no request to the working collection (feature patch, delete, bulk patch and
\* merge, validate, autofix, export) changes the source collection, and detect_all and
\* patch_file change nothing of it but the feature types.
C30_SourceIndependent ==
    [][/\ response'.endpoint \in {"patch_feature", "delete_feature", "patch_features_bulk",
                                  "validate_session", "autofix_session", "export_imdf"}
            => session'.source_feature_collection = session.source_feature_collection
       /\ response'.endpoint \in {"detect_all", "patch_file"}
            => SameButTypes(session.source_feature_collection,
                            session'.source_feature_collection)]_vars

\* an autofix request has answered on a working collection that lost a feature the
\* source collection still holds
C30_Witness ==
    /\ session.exists
    /\ pc = "classify"
    /\ response.endpoint = "autofix_session"
    /\ \E j \in 1..Len(session.source_feature_collection) :
          /\ session.source_feature_collection[j].id = "uuid-2"
          /\ session.source_feature_collection[j].properties.status = "mapped"
          /\ \A i \in 1..Len(session.feature_collection) :
                session.feature_collection[i].id # "uuid-2"


====
